---- MODULE Spec2Model ----
(***************************************************************************)
(* Verification model of the software rasterization core of YGO-Clone:     *)
(* colour operations, primitive rasterizers, samplers and the clipper.     *)
(*                                                                         *)
(* Conventions.                                                            *)
(*  - A 32-bit pixel word is the pair <<hi, lo>> of its two 16-bit halves  *)
(*    (value hi * 65536 + lo); shifts, masks and ors are computed on the   *)
(*    halves exactly as the C operators compute them on the word.          *)
(*  - A framebuffer is a record [w, h, px], px a function on               *)
(*    (0..w-1) \X (0..h-1); buffer[x, y] is px[<<x, y>>].                  *)
(*  - C doubles are modelled as exact rationals <<num, den>>, den > 0, in  *)
(*    lowest terms; rounding of IEEE arithmetic is not modelled.           *)
(*  - Every call draws on a framebuffer supplied by the caller: an action  *)
(*    picks the framebuffer and the arguments, runs the whole entry point  *)
(*    and records the framebuffer before, after, and the ordered list of   *)
(*    store targets.                                                       *)
(***************************************************************************)
EXTENDS Integers, Sequences, FiniteSets, TLC

VARIABLES op, args, before, buffer, writes, result

vars == <<op, args, before, buffer, writes, result>>

(***************************************************************************)
(* 32-bit words                                                            *)
(***************************************************************************)
Half == 2 ^ 16

RECURSIVE BitOr16(_, _, _)
BitOr16(p, q, n) ==
  IF n = 0 THEN 0
  ELSE IF p = 0 THEN q % (2 ^ n)
  ELSE IF q = 0 THEN p % (2 ^ n)
  ELSE (IF (p % 2 = 1) \/ (q % 2 = 1) THEN 1 ELSE 0)
       + 2 * BitOr16(p \div 2, q \div 2, n - 1)

RECURSIVE BitAnd16(_, _, _)
BitAnd16(p, q, n) ==
  IF n = 0 \/ p = 0 \/ q = 0 THEN 0
  ELSE (IF (p % 2 = 1) /\ (q % 2 = 1) THEN 1 ELSE 0)
       + 2 * BitAnd16(p \div 2, q \div 2, n - 1)

\* c | d on 32-bit words
Or32(c, d) == <<BitOr16(c[1], d[1], 16), BitOr16(c[2], d[2], 16)>>

\* c & d on 32-bit words
And32(c, d) == <<BitAnd16(c[1], d[1], 16), BitAnd16(c[2], d[2], 16)>>

\* c >> k, 0 <= k < 32, logical shift of an unsigned word
Shr(c, k) ==
  IF k >= 16 THEN <<0, c[1] \div (2 ^ (k - 16))>>
  ELSE <<c[1] \div (2 ^ k), (c[2] \div (2 ^ k)) + (c[1] % (2 ^ k)) * (2 ^ (16 - k))>>

\* c << k, k in {0, 8, 16, 24}, truncated to 32 bits
Shl(c, k) ==
  IF k >= 16 THEN <<(c[2] * (2 ^ (k - 16))) % Half, 0>>
  ELSE <<(c[1] * (2 ^ k) + c[2] \div (2 ^ (16 - k))) % Half, (c[2] * (2 ^ k)) % Half>>

\* a small non-negative integer widened to a 32-bit word
ToU32(n) == <<(n \div Half) % Half, n % Half>>

\* the value of a word known to be below 2^16
Low(c) == c[2]

\* conversion to uint8 keeps the low 8 bits
ToU8(n) == n % 256

Mask8 == <<0, 255>>

(***************************************************************************)
(* engine/graphics/tools/colors.pxd                                        *)
(***************************************************************************)
\* mutant: red and blue exchanged (BGRA byte order)
pack_bgra(r, g, b, a) ==
  Or32(Or32(Or32(Shl(ToU32(a), 24), Shl(ToU32(b), 16)), Shl(ToU32(g), 8)), ToU32(r))

pack_rgba(r, g, b, a) ==
  Or32(Or32(Or32(Shl(ToU32(a), 24), Shl(ToU32(r), 16)), Shl(ToU32(g), 8)), ToU32(b))

unpack_rgba(color) ==
  [r |-> ToU8(Low(And32(Shr(color, 16), Mask8))),
   g |-> ToU8(Low(And32(Shr(color, 8), Mask8))),
   b |-> ToU8(Low(And32(color, Mask8))),
   a |-> ToU8(Low(And32(Shr(color, 24), Mask8)))]

\* mutant: exact division by 255 in place of the >> 8 approximation
blend_channel_div255(sc, sa, dc, inv_a) == ToU8((sc * sa + dc * inv_a) \div 255)

\* (sc * sa + dc * inv_a) >> 8 narrowed to uint8
blend_channel(sc, sa, dc, inv_a) == ToU8((sc * sa + dc * inv_a) \div 256)

\* mutant: exact division by 255 in the alpha term
blend_alpha_div255(sa, da, inv_a) == ToU8(sa + ((da * inv_a) \div 255))

blend_alpha(sa, da, inv_a) == ToU8(sa + ((da * inv_a) \div 256))

blend_colors(src, dst) ==
  IF Low(Shr(src, 24)) = 0 THEN dst
  ELSE IF Low(Shr(src, 24)) = 255 THEN src
  ELSE LET s == unpack_rgba(src)
           d == unpack_rgba(dst)
           inv_a == 255 - s.a
       IN pack_rgba(blend_channel(s.r, s.a, d.r, inv_a),
                    blend_channel(s.g, s.a, d.g, inv_a),
                    blend_channel(s.b, s.a, d.b, inv_a),
                    blend_alpha(s.a, d.a, inv_a))

(***************************************************************************)
(* Framebuffer stores.  A rasterizer run threads st = [px, log]: px the    *)
(* pixel function, log the ordered store targets <<x, y>>.  The sources    *)
(* are compiled with boundscheck=False, so a store outside the buffer      *)
(* would hit foreign memory: it is logged and leaves px alone.             *)
(***************************************************************************)
ZeroWord == <<0, 0>>

Load(st, x, y) == IF <<x, y>> \in DOMAIN st.px THEN st.px[<<x, y>>] ELSE ZeroWord

Store(st, x, y, value) ==
  [px  |-> IF <<x, y>> \in DOMAIN st.px
           THEN [st.px EXCEPT ![<<x, y>>] = value] ELSE st.px,
   log |-> Append(st.log, <<x, y>>)]

\* buffer[x, y] = blend_colors(color, buffer[x, y])
BlendAt(st, x, y, color) == Store(st, x, y, blend_colors(color, Load(st, x, y)))

Start(fb) == [px |-> fb.px, log |-> <<>>]

\* The stores of the earlier iterations are made before a loop tests its condition:
\* always TRUE, and read at the head of each loop so that a run is evaluated store
\* by store in program order.
Sequenced(st) == Len(st.log) >= 0

(***************************************************************************)
(* Rectangles (unnamed/part_000)                                           *)
(***************************************************************************)
\* mutant: the negative origin is reset without shrinking the extent
rect_clip_keep_extent(x, y, w, h, buf_w, buf_h) ==
  LET x1 == IF x < 0 THEN 0 ELSE x
      y1 == IF y < 0 THEN 0 ELSE y
  IN [x |-> x1, y |-> y1,
      w |-> IF x1 + w > buf_w THEN buf_w - x1 ELSE w,
      h |-> IF y1 + h > buf_h THEN buf_h - y1 ELSE h]

\* mutant: the far edges are not clipped
rect_clip_open(x, y, w, h, buf_w, buf_h) ==
  [x |-> IF x < 0 THEN 0 ELSE x, y |-> IF y < 0 THEN 0 ELSE y,
   w |-> IF x < 0 THEN w + x ELSE w, h |-> IF y < 0 THEN h + y ELSE h]

\* lines 23-32: the rectangle clipped to the buffer
rect_clip(x, y, w, h, buf_w, buf_h) ==
  LET w1 == IF x < 0 THEN w + x ELSE w
      x1 == IF x < 0 THEN 0 ELSE x
      h1 == IF y < 0 THEN h + y ELSE h
      y1 == IF y < 0 THEN 0 ELSE y
  IN [x |-> x1, y |-> y1,
      w |-> IF x1 + w1 > buf_w THEN buf_w - x1 ELSE w1,
      h |-> IF y1 + h1 > buf_h THEN buf_h - y1 ELSE h1]

\* for i in range(x, x + w): for j in range(y, y + h): visit (i, j), from k on
RECURSIVE rect_loop(_, _, _, _, _, _, _, _)
rect_loop(st, x, y, w, h, color, opaque, k) ==
  IF ~Sequenced(st) \/ k >= w * h THEN st
  ELSE LET i == x + (k \div h)
           j == y + (k % h)
       IN rect_loop(IF opaque THEN Store(st, i, j, color) ELSE BlendAt(st, i, j, color),
                    x, y, w, h, color, opaque, k + 1)

rasterize_rect_filled_c(st, buf_w, buf_h, x, y, w, h, color) ==
  LET c == rect_clip(x, y, w, h, buf_w, buf_h)
      alpha == Low(And32(Shr(color, 24), Mask8))
  IN IF c.w <= 0 \/ c.h <= 0 THEN st
     ELSE IF alpha = 255 THEN rect_loop(st, c.x, c.y, c.w, c.h, color, TRUE, 0)
     ELSE IF alpha > 0 THEN rect_loop(st, c.x, c.y, c.w, c.h, color, FALSE, 0)
     ELSE st

fill_rect(fb, x, y, w, h, color) ==
  rasterize_rect_filled_c(Start(fb), fb.w, fb.h, x, y, w, h, color)

\* mutant: the side strips start at the top row and run the whole height
draw_rect_outline_full_sides(fb, x, y, w, h, color, thickness) ==
  LET top    == rasterize_rect_filled_c(Start(fb), fb.w, fb.h, x, y, w, thickness, color)
      bottom == rasterize_rect_filled_c(top, fb.w, fb.h, x, y + h - thickness, w, thickness, color)
      left   == rasterize_rect_filled_c(bottom, fb.w, fb.h, x, y, thickness, h, color)
  IN rasterize_rect_filled_c(left, fb.w, fb.h, x + w - thickness, y, thickness, h, color)

draw_rect_outline(fb, x, y, w, h, color, thickness) ==
  LET top    == rasterize_rect_filled_c(Start(fb), fb.w, fb.h, x, y, w, thickness, color)
      bottom == rasterize_rect_filled_c(top, fb.w, fb.h, x, y + h - thickness, w, thickness, color)
      left   == rasterize_rect_filled_c(bottom, fb.w, fb.h, x, y + thickness, thickness,
                                        h - 2 * thickness, color)
  IN rasterize_rect_filled_c(left, fb.w, fb.h, x + w - thickness, y + thickness, thickness,
                             h - 2 * thickness, color)

(***************************************************************************)
(* Calls.  Init is the state before any call; an action records one call.  *)
(***************************************************************************)
\* the largest framebuffer side the rasterizer actions draw on
FbMax == 3

\* how far outside the framebuffer the integer arguments reach
Reach == 2

OpaqueBlue == <<65280, 255>>    \* 0xFF0000FF
OpaqueRed  == <<65535, 0>>      \* 0xFFFF0000
HalfRed    == <<33023, 0>>      \* 0x80FF0000
FaintGreen == <<511, 65280>>    \* 0x01FFFF00
ClearWhite == <<255, 65535>>    \* 0x00FFFFFF
DenseGrey  == <<65152, 32896>>  \* 0xFE808080

Palette == <<OpaqueBlue, ZeroWord, DenseGrey, HalfRed>>

\* caller-supplied framebuffers: zeroed, or a repeating pattern of Palette
ZeroFb(w, h) == [px |-> [c \in (0 .. w - 1) \X (0 .. h - 1) |-> ZeroWord], w |-> w, h |-> h]

PatternFb(w, h) ==
  [px |-> [c \in (0 .. w - 1) \X (0 .. h - 1) |-> Palette[((c[1] + 2 * c[2]) % Len(Palette)) + 1]],
   w |-> w, h |-> h]

Framebuffers == UNION {{ZeroFb(w, h), PatternFb(w, h)} : w \in 1 .. FbMax, h \in 1 .. FbMax}

Init ==
  /\ op = "init" /\ args = <<>> /\ before = ZeroFb(1, 1) /\ buffer = ZeroFb(1, 1)
  /\ writes = <<>> /\ result = <<>>

\* the caller drops the results of a call and is ready for the next one
Release ==
  /\ op # "init"
  /\ op' = "init" /\ args' = <<>> /\ before' = ZeroFb(1, 1) /\ buffer' = ZeroFb(1, 1)
  /\ writes' = <<>> /\ result' = <<>>

\* a rasterizer call: the buffer after the run and the stores it made
Drawn(name, a, fb, st) ==
  /\ op' = name /\ args' = a /\ before' = fb
  /\ buffer' = [fb EXCEPT !.px = st.px] /\ writes' = st.log /\ result' = <<>>

\* a rasterizer call that also keeps a value computed beside it
DrawnWith(name, a, fb, st, r) ==
  /\ op' = name /\ args' = a /\ before' = fb
  /\ buffer' = [fb EXCEPT !.px = st.px] /\ writes' = st.log /\ result' = r

\* a call of a pure function
Returned(name, a, r) ==
  /\ op' = name /\ args' = a /\ result' = r
  /\ UNCHANGED <<before, buffer, writes>>

(***************************************************************************)
(* Colour operations called on sampled bytes and words                     *)
(***************************************************************************)
ByteSamples == {0, 1, 127, 128, 254, 255}
ChannelSamples == {0, 128, 255}
HalfSamples == {0, 1, 255, 256, 32767, 32768, 33023, 65280, 65535}

\* the word with bytes a, r, g, b from the most significant down
WordOf(a, r, g, b) == <<a * 256 + r, g * 256 + b>>

BlendInputs ==
  {WordOf(a, r, g, b) : a \in ByteSamples, r \in ChannelSamples,
                        g \in {0, 255}, b \in {1, 254}}

CallBlendColors ==
  op = "init" /\ \E src \in BlendInputs, dst \in BlendInputs :
    Returned("blend_colors", [src |-> src, dst |-> dst], blend_colors(src, dst))

CallPackRgba ==
  op = "init" /\ \E vr \in ByteSamples, vg \in ByteSamples, vb \in ByteSamples, va \in ByteSamples :
    LET c == pack_rgba(vr, vg, vb, va)
    IN Returned("pack_rgba", [r |-> vr, g |-> vg, b |-> vb, a |-> va],
                [packed |-> c, unpacked |-> unpack_rgba(c)])

CallUnpackRgba ==
  op = "init" /\ \E hi \in HalfSamples, lo \in HalfSamples :
    LET u == unpack_rgba(<<hi, lo>>)
    IN Returned("unpack_rgba", [color |-> <<hi, lo>>],
                [packed |-> pack_rgba(u.r, u.g, u.b, u.a), unpacked |-> u])

NextColor == CallBlendColors \/ CallPackRgba \/ CallUnpackRgba \/ Release

SpecColor == Init /\ [][NextColor]_vars

\* the bytes of a word, by arithmetic on its halves
AlphaOf(c) == c[1] \div 256
RedOf(c)   == c[1] % 256
GreenOf(c) == c[2] \div 256
BlueOf(c)  == c[2] % 256

\* C2: blend_colors(src, dst) is dst when src alpha is 0, src when it is 255, and
\* otherwise the pixel with colour bytes (src_c*sa + dst_c*(255-sa)) >> 8 and alpha
\* byte sa + ((da*(255-sa)) >> 8), none of which exceeds 255 before narrowing.
BlendMatchesReference ==
  op = "blend_colors" =>
    LET src == args.src
        dst == args.dst
        sa == AlphaOf(src)
        ia == 255 - sa
        rr == (RedOf(src) * sa + RedOf(dst) * ia) \div 256
        rg == (GreenOf(src) * sa + GreenOf(dst) * ia) \div 256
        rb == (BlueOf(src) * sa + BlueOf(dst) * ia) \div 256
        ra == sa + ((AlphaOf(dst) * ia) \div 256)
    IN IF sa = 0 THEN result = dst
       ELSE IF sa = 255 THEN result = src
       ELSE /\ rr <= 255 /\ rg <= 255 /\ rb <= 255 /\ ra <= 255
            /\ RedOf(result) = rr /\ GreenOf(result) = rg
            /\ BlueOf(result) = rb /\ AlphaOf(result) = ra

BlendWitness ==
  /\ op = "blend_colors" /\ AlphaOf(args.src) = 127 /\ AlphaOf(args.dst) = 254
  /\ RedOf(args.src) = 128 /\ RedOf(args.dst) = 255
  /\ result # args.src /\ result # args.dst

\* C5: unpack_rgba(pack_rgba(r, g, b, a)) = (r, g, b, a) with the packed word equal
\* to (a<<24)|(r<<16)|(g<<8)|b, and packing the bytes unpacked from a word c gives c.
PackUnpackRoundTrip ==
  /\ op = "pack_rgba" =>
       /\ result.packed = <<args.a * 256 + args.r, args.g * 256 + args.b>>
       /\ result.unpacked = [r |-> args.r, g |-> args.g, b |-> args.b, a |-> args.a]
  /\ op = "unpack_rgba" => result.packed = args.color

PackUnpackWitness ==
  \/ /\ op = "pack_rgba" /\ args.a = 254 /\ args.r = 1 /\ args.g = 128 /\ args.b = 127
     /\ result.unpacked.a = 254
  \/ /\ op = "unpack_rgba" /\ args.color = <<33023, 32768>> /\ result.unpacked.r = 255

(***************************************************************************)
(* Rectangle calls                                                         *)
(***************************************************************************)
PatternFbs == {PatternFb(w, h) : w \in 1 .. FbMax, h \in 1 .. FbMax}

RectColors == {OpaqueRed, HalfRed, ClearWhite}

Origins == (0 - Reach) .. (FbMax + 1)
Extents == (0 - 1) .. (FbMax + 1)

CallFillRect ==
  op = "init" /\ \E fb \in PatternFbs, x \in Origins, y \in Origins,
                     w \in Extents, h \in Extents, color \in RectColors :
    Drawn("fill_rect", [color |-> color, x |-> x, y |-> y, w |-> w, h |-> h], fb,
          fill_rect(fb, x, y, w, h, color))

CallDrawRectOutline ==
  op = "init" /\ \E fb \in PatternFbs, x \in {0 - 1, 0, 1}, y \in {0 - 1, 0},
                     w \in 1 .. (FbMax + 1), h \in 1 .. (FbMax + 1),
                     color \in {OpaqueRed, HalfRed}, thickness \in {1, 2} :
    Drawn("draw_rect_outline",
          [color |-> color, x |-> x, y |-> y, w |-> w, h |-> h, thickness |-> thickness],
          fb, draw_rect_outline(fb, x, y, w, h, color, thickness))

NextRect == CallFillRect \/ CallDrawRectOutline \/ Release

SpecRect == Init /\ [][NextRect]_vars

\* how many stores of the last call hit p
StoresTo(p) == Cardinality({i \in 1 .. Len(writes) : writes[i] = p})

\* C3: fill_rect replaces each pixel of the intersection of [x, x+w) x [y, y+h) with
\* the framebuffer by blend_colors(color, old pixel) (the raw colour when alpha is
\* 255, the old pixel when alpha is 0), storing to it at most once and exactly once
\* when alpha is not 0, and leaves every other pixel unchanged and unwritten; an
\* empty intersection (w <= 0, h <= 0, or wholly outside) changes nothing.
FillRectEffect ==
  op = "fill_rect" =>
    LET color == args.color
        alpha == AlphaOf(color)
        inside(c) == /\ args.x <= c[1] /\ c[1] < args.x + args.w
                     /\ args.y <= c[2] /\ c[2] < args.y + args.h
    IN /\ DOMAIN buffer.px = DOMAIN before.px
       /\ \A i \in 1 .. Len(writes) : writes[i] \in DOMAIN before.px
       /\ \A c \in DOMAIN before.px :
            IF inside(c)
            THEN /\ buffer.px[c] = blend_colors(color, before.px[c])
                 /\ alpha = 255 => buffer.px[c] = color
                 /\ alpha = 0 => buffer.px[c] = before.px[c]
                 /\ StoresTo(c) = (IF alpha = 0 THEN 0 ELSE 1)
            ELSE buffer.px[c] = before.px[c] /\ StoresTo(c) = 0
       /\ (args.w <= 0 \/ args.h <= 0) => (buffer = before /\ writes = <<>>)

\* a translucent rectangle hanging over the left and the bottom edge
FillRectWitness ==
  /\ op = "fill_rect" /\ args.color = HalfRed
  /\ before.w = 3 /\ before.h = 3
  /\ args.x = 0 - 1 /\ args.y = 2 /\ args.w = 3 /\ args.h = 3
  /\ Len(writes) = 2 /\ buffer.px[<<1, 2>>] # before.px[<<1, 2>>]
  /\ buffer.px[<<2, 2>>] = before.px[<<2, 2>>]

IsHalfBlend ==
  /\ op = "fill_rect" /\ before = PatternFb(1, 1) /\ before.px[<<0, 0>>] = OpaqueBlue
  /\ args = [color |-> HalfRed, x |-> 0, y |-> 0, w |-> 1, h |-> 1]

\* C4 as claimed: on a 1x1 framebuffer holding 0xFF0000FF, fill_rect(fb, 0, 0, 1, 1,
\* 0x80FF0000) leaves red 127, green 0, blue 126 and alpha 255.
HalfBlendAlpha255 ==
  IsHalfBlend =>
    LET c == buffer.px[<<0, 0>>]
    IN RedOf(c) = 127 /\ GreenOf(c) = 0 /\ BlueOf(c) = 126 /\ AlphaOf(c) = 255

\* C4 amended: the same call leaves red 127, green 0, blue 126 and alpha 254
\* (128 + ((255 * 127) >> 8) = 128 + 126).
HalfBlendAlpha254 ==
  IsHalfBlend =>
    LET c == buffer.px[<<0, 0>>]
    IN RedOf(c) = 127 /\ GreenOf(c) = 0 /\ BlueOf(c) = 126 /\ AlphaOf(c) = 254

HalfBlendWitness == IsHalfBlend /\ writes = <<(<<0, 0>>)>> /\ buffer.px[<<0, 0>>] = <<65151, 126>>

(***************************************************************************)
(* Points (primitives/point.pyx) and lines (primitives/line.pyx)           *)
(***************************************************************************)
\* mutant: the upper limits are tested with <=
in_bounds_inclusive(x, y, w, h) == 0 <= x /\ x <= w /\ 0 <= y /\ y <= h

\* 0 <= x < w and 0 <= y < h
in_bounds(x, y, w, h) == 0 <= x /\ x < w /\ 0 <= y /\ y < h

draw_pixel_c(st, w, h, x, y, color) ==
  IF in_bounds(x, y, w, h) THEN BlendAt(st, x, y, color) ELSE st

draw_point(fb, x, y, color) == draw_pixel_c(Start(fb), fb.w, fb.h, x, y, color)

Abs(n) == IF n < 0 THEN 0 - n ELSE n

\* mutant: both error tests are taken from the error term as updated by the first
line_step_stale(x0, y0, err, dx, dy, sx, sy) ==
  LET err1 == IF 2 * err > 0 - dy THEN err - dy ELSE err
      xn   == IF 2 * err > 0 - dy THEN x0 + sx ELSE x0
  IN <<xn, IF 2 * err1 < dx THEN y0 + sy ELSE y0, IF 2 * err1 < dx THEN err1 + dx ELSE err1>>

\* lines 27-33: one step of the error term, giving the next <<x0, y0, err>>
line_step(x0, y0, err, dx, dy, sx, sy) ==
  LET e2   == 2 * err
      err1 == IF e2 > 0 - dy THEN err - dy ELSE err
      xn   == IF e2 > 0 - dy THEN x0 + sx ELSE x0
  IN <<xn, IF e2 < dx THEN y0 + sy ELSE y0, IF e2 < dx THEN err1 + dx ELSE err1>>

\* the while True loop; fuel caps the unrolling and is never exhausted by the code
RECURSIVE line_loop(_, _, _, _, _, _, _, _, _, _, _, _, _, _)
line_loop(st, w, h, x0, y0, x1, y1, err, dx, dy, sx, sy, color, fuel) ==
  LET st1 == IF in_bounds(x0, y0, w, h) THEN BlendAt(st, x0, y0, color) ELSE st
  IN IF ~Sequenced(st) \/ (x0 = x1 /\ y0 = y1) \/ fuel = 0 THEN st1
     ELSE LET n == line_step(x0, y0, err, dx, dy, sx, sy)
          IN line_loop(st1, w, h, n[1], n[2], x1, y1, n[3], dx, dy, sx, sy, color, fuel - 1)

\* mutant: the error term starts at 0
rasterize_line_c_flat(st, w, h, x0, y0, x1, y1, color) ==
  LET dx == Abs(x1 - x0)
      dy == Abs(y1 - y0)
      sx == IF x0 < x1 THEN 1 ELSE 0 - 1
      sy == IF y0 < y1 THEN 1 ELSE 0 - 1
  IN line_loop(st, w, h, x0, y0, x1, y1, 0, dx, dy, sx, sy, color, 2 * (dx + dy) + 2)

rasterize_line_c(st, w, h, x0, y0, x1, y1, color) ==
  LET dx == Abs(x1 - x0)
      dy == Abs(y1 - y0)
      sx == IF x0 < x1 THEN 1 ELSE 0 - 1
      sy == IF y0 < y1 THEN 1 ELSE 0 - 1
  IN line_loop(st, w, h, x0, y0, x1, y1, dx - dy, dx, dy, sx, sy, color, 2 * (dx + dy) + 2)

draw_line(fb, x0, y0, x1, y1, color) ==
  rasterize_line_c(Start(fb), fb.w, fb.h, x0, y0, x1, y1, color)

(***************************************************************************)
(* Circles (primitives/circle.pyx, lines 1-64)                             *)
(***************************************************************************)
plot(st, x, y, color, w, h) ==
  IF in_bounds(x, y, w, h) THEN BlendAt(st, x, y, color) ELSE st

\* for i in range(x1, x2 + 1): blend (i, y)
RECURSIVE span_loop(_, _, _, _, _)
span_loop(st, i, x2, y, color) ==
  IF ~Sequenced(st) \/ i > x2 THEN st
  ELSE span_loop(BlendAt(st, i, y, color), i + 1, x2, y, color)

\* mutant: the span stops one pixel short of x2
scanline_h_short(st, x1, x2, y, color, w, h) ==
  IF y < 0 \/ y >= h THEN st
  ELSE LET c1 == IF x1 < 0 THEN 0 ELSE x1
           c2 == IF x2 >= w THEN w - 1 ELSE x2
       IN IF c1 > c2 THEN st ELSE span_loop(st, c1, c2 - 1, y, color)

scanline_h(st, x1, x2, y, color, w, h) ==
  IF y < 0 \/ y >= h THEN st
  ELSE LET c1 == IF x1 < 0 THEN 0 ELSE x1
           c2 == IF x2 >= w THEN w - 1 ELSE x2
       IN IF c1 > c2 THEN st ELSE span_loop(st, c1, c2, y, color)

\* mutant: the decision variable is advanced with the old y
circle_step_old_y(x, y, d) ==
  IF d > 0 THEN <<x + 1, y - 1, d + 4 * ((x + 1) - y) + 10>>
  ELSE <<x + 1, y, d + 4 * (x + 1) + 6>>

\* x += 1, then the update of y and d: the next <<x, y, d>>
circle_step(x, y, d) ==
  IF d > 0 THEN <<x + 1, y - 1, d + 4 * ((x + 1) - (y - 1)) + 10>>
  ELSE <<x + 1, y, d + 4 * (x + 1) + 6>>

RECURSIVE circle_filled_loop(_, _, _, _, _, _, _, _, _)
circle_filled_loop(st, w, h, cx, cy, x, y, d, color) ==
  IF ~Sequenced(st) \/ y < x THEN st
  ELSE LET s1 == scanline_h(st, cx - x, cx + x, cy + y, color, w, h)
           s2 == scanline_h(s1, cx - x, cx + x, cy - y, color, w, h)
           s3 == scanline_h(s2, cx - y, cx + y, cy + x, color, w, h)
           s4 == scanline_h(s3, cx - y, cx + y, cy - x, color, w, h)
           n  == circle_step(x, y, d)
       IN circle_filled_loop(s4, w, h, cx, cy, n[1], n[2], n[3], color)

draw_circle_filled(fb, cx, cy, r, color) ==
  circle_filled_loop(Start(fb), fb.w, fb.h, cx, cy, 0, r, 3 - 2 * r, color)

\* mutant: the four diagonal-octant pixels (cx +- y, cy +- x) are left out
circle_plot8_half(st, w, h, cx, cy, x, y, color) ==
  LET s1 == plot(st, cx + x, cy + y, color, w, h)
      s2 == plot(s1, cx - x, cy + y, color, w, h)
      s3 == plot(s2, cx + x, cy - y, color, w, h)
  IN plot(s3, cx - x, cy - y, color, w, h)

\* lines 35-42: the eight symmetric pixels of one step
circle_plot8(st, w, h, cx, cy, x, y, color) ==
  LET s1 == plot(st, cx + x, cy + y, color, w, h)
      s2 == plot(s1, cx - x, cy + y, color, w, h)
      s3 == plot(s2, cx + x, cy - y, color, w, h)
      s4 == plot(s3, cx - x, cy - y, color, w, h)
      s5 == plot(s4, cx + y, cy + x, color, w, h)
      s6 == plot(s5, cx - y, cy + x, color, w, h)
      s7 == plot(s6, cx + y, cy - x, color, w, h)
  IN plot(s7, cx - y, cy - x, color, w, h)

RECURSIVE circle_outline_loop(_, _, _, _, _, _, _, _, _)
circle_outline_loop(st, w, h, cx, cy, x, y, d, color) ==
  IF ~Sequenced(st) \/ y < x THEN st
  ELSE LET n == circle_step(x, y, d)
       IN circle_outline_loop(circle_plot8(st, w, h, cx, cy, x, y, color),
                              w, h, cx, cy, n[1], n[2], n[3], color)

draw_circle_outline(fb, cx, cy, r, color) ==
  circle_outline_loop(Start(fb), fb.w, fb.h, cx, cy, 0, r, 3 - 2 * r, color)

(***************************************************************************)
(* Line calls                                                              *)
(***************************************************************************)
\* the largest line coordinate
LineMax == 5

OpaqueGreen == <<65280, 65280>>  \* 0xFF00FF00

LineFbs == {ZeroFb(5, 5), PatternFb(FbMax, FbMax)}
LineCoords == (0 - 1) .. LineMax

CallDrawLine ==
  op = "init" /\ \E fb \in LineFbs, x0 \in LineCoords, y0 \in LineCoords,
                     x1 \in LineCoords, y1 \in LineCoords, color \in {OpaqueGreen, HalfRed} :
    Drawn("draw_line", [color |-> color, x1 |-> x1, y1 |-> y1, x0 |-> x0, y0 |-> y0], fb,
          draw_line(fb, x0, y0, x1, y1, color))

CallDrawPoint ==
  op = "init" /\ \E fb \in LineFbs, x \in LineCoords, y \in LineCoords,
                     color \in {OpaqueGreen, HalfRed, ClearWhite} :
    Drawn("draw_point", [color |-> color, x |-> x, y |-> y], fb, draw_point(fb, x, y, color))

NextLine == CallDrawLine \/ CallDrawPoint \/ Release

SpecLine == Init /\ [][NextLine]_vars

\* the pixels whose value the last call changed
Changed == {c \in DOMAIN before.px : buffer.px[c] # before.px[c]}

\* the in-buffer pixels the last call stored to
Written == {writes[i] : i \in 1 .. Len(writes)}

IsBresenhamScenario ==
  /\ op = "draw_line" /\ before = ZeroFb(5, 5) /\ AlphaOf(args.color) = 255
  /\ args.x0 = 0 /\ args.y0 = 0 /\ args.x1 = 4 /\ args.y1 = 2

\* C6: draw_line on a zeroed 5x5 framebuffer from (0,0) to (4,2) with an opaque
\* colour changes exactly the pixels (0,0), (1,0), (2,1), (3,1), (4,2).
BresenhamTrace ==
  IsBresenhamScenario =>
    /\ Changed = {<<0, 0>>, <<1, 0>>, <<2, 1>>, <<3, 1>>, <<4, 2>>}
    /\ Written = Changed
    /\ \A c \in Changed : buffer.px[c] = args.color

BresenhamWitness == IsBresenhamScenario /\ Len(writes) = 5 /\ buffer.px[<<2, 1>>] = OpaqueGreen

(***************************************************************************)
(* Circle calls                                                            *)
(***************************************************************************)
\* the largest centre coordinate and the largest radius
CircleMax == 5
RadiusMax == 4

CircleFbs == {ZeroFb(11, 11)} \cup PatternFbs
Centres == (0 - Reach) .. CircleMax
Radii == (0 - 1) .. RadiusMax

CallDrawCircleOutline ==
  op = "init" /\ \E fb \in CircleFbs, cx \in Centres, cy \in Centres, r \in Radii,
                     color \in {OpaqueRed, HalfRed} :
    Drawn("draw_circle_outline", [r |-> r, color |-> color, cx |-> cx, cy |-> cy], fb,
          draw_circle_outline(fb, cx, cy, r, color))

\* result keeps the stores draw_circle_outline makes for the same arguments
CallDrawCircleFilled ==
  op = "init" /\ \E fb \in CircleFbs, cx \in Centres, cy \in Centres, r \in Radii,
                     color \in {OpaqueRed, HalfRed} :
    DrawnWith("draw_circle_filled", [r |-> r, color |-> color, cx |-> cx, cy |-> cy], fb,
              draw_circle_filled(fb, cx, cy, r, color),
              draw_circle_outline(fb, cx, cy, r, color).log)

NextCircle == CallDrawCircleOutline \/ CallDrawCircleFilled \/ Release

SpecCircle == Init /\ [][NextCircle]_vars

IsCircleScenario ==
  /\ op = "draw_circle_outline" /\ before = ZeroFb(11, 11) /\ AlphaOf(args.color) = 255
  /\ args.cx = 5 /\ args.cy = 5 /\ args.r = 3

\* C7 as claimed: draw_circle_outline on a zeroed 11x11 framebuffer with centre
\* (5,5), radius 3 and an opaque colour lights exactly 24 distinct pixels.
CircleOutline24 == IsCircleScenario => Cardinality(Changed) = 24

\* the midpoint-circle set for r = 3, relative to the centre
MidpointSet3 ==
  {<<0, 3>>, <<0, 0 - 3>>, <<3, 0>>, <<0 - 3, 0>>,
   <<1, 3>>, <<0 - 1, 3>>, <<1, 0 - 3>>, <<0 - 1, 0 - 3>>,
   <<3, 1>>, <<0 - 3, 1>>, <<3, 0 - 1>>, <<0 - 3, 0 - 1>>,
   <<2, 2>>, <<0 - 2, 2>>, <<2, 0 - 2>>, <<0 - 2, 0 - 2>>}

\* C7 amended: the call lights exactly the 16 distinct pixels of the midpoint-circle
\* set for r = 3; its 24 stores hit 8 of them twice.
CircleOutline16 ==
  IsCircleScenario =>
    /\ Changed = {<<5 + c[1], 5 + c[2]>> : c \in MidpointSet3}
    /\ Cardinality(Changed) = 16
    /\ Written = Changed
    /\ Len(writes) = 24

CircleOutlineWitness == IsCircleScenario /\ buffer.px[<<7, 7>>] = args.color /\ Len(writes) = 24

\* the offsets from the centre of the pixels the outline of radius r plots, clipped
\* or not: the outline drawn at the centre of a framebuffer that holds all of it
OutlineOffsets(r) ==
  LET log == draw_circle_outline(ZeroFb(2 * r + 1, 2 * r + 1), r, r, r, OpaqueRed).log
  IN {<<log[i][1] - r, log[i][2] - r>> : i \in 1 .. Len(log)}

\* row cy + dy of the disk: xs are the outline offsets on it
RowCovered(xs, fill, cx, y, w, h) ==
  /\ xs # {}
  /\ (0 <= y /\ y < h) =>
       \A x \in 0 .. (w - 1) :
         ((\E l \in xs : cx + l <= x) /\ (\E m \in xs : x <= cx + m)) => <<x, y>> \in fill

DiskCovered(offs, fill, outline, cx, cy, r, w, h) ==
  /\ outline \subseteq fill
  /\ \A dy \in (0 - r) .. r :
       RowCovered({o[1] : o \in {c \in offs : c[2] = dy}}, fill, cx, cy + dy, w, h)

\* C8: for r >= 0 the pixels written by draw_circle_filled contain every pixel
\* written by draw_circle_outline with the same arguments and, on every row from
\* cy-r to cy+r, every in-bounds pixel between the leftmost and the rightmost
\* outline pixel of that row; every such row has outline pixels.
FilledCoversOutline ==
  (op = "draw_circle_filled" /\ args.r >= 0) =>
    DiskCovered(OutlineOffsets(args.r), Written, {result[i] : i \in 1 .. Len(result)},
                args.cx, args.cy, args.r, before.w, before.h)

\* a disk of radius 2 cut by the left and the top edge, with interior pixels
FilledCoversWitness ==
  /\ op = "draw_circle_filled" /\ args.r = 2 /\ args.cx = 0 /\ args.cy = 0
  /\ before.w = 3 /\ before.h = 3
  /\ Len(result) > 0
  /\ {result[i] : i \in 1 .. Len(result)} # Written

(***************************************************************************)
(* Doubles as exact rationals <<num, den>> in lowest terms, den > 0.       *)
(* A zero divisor gives den = 0: <<1, 0>>, <<-1, 0>> for the infinities    *)
(* and <<0, 0>> for NaN (cdivision=True: no ZeroDivisionError is raised).  *)
(***************************************************************************)
RECURSIVE GCD(_, _)
GCD(m, n) == IF n = 0 THEN m ELSE GCD(n, m % n)

Sign(n) == IF n > 0 THEN 1 ELSE IF n < 0 THEN 0 - 1 ELSE 0

QNorm(n, d) ==
  IF d = 0 THEN <<Sign(n), 0>>
  ELSE LET g == GCD(Abs(n), Abs(d))
       IN <<Sign(d) * (n \div g), Abs(d) \div g>>

Q(n) == <<n, 1>>
QAdd(a, b) == QNorm(a[1] * b[2] + b[1] * a[2], a[2] * b[2])
QSub(a, b) == QNorm(a[1] * b[2] - b[1] * a[2], a[2] * b[2])
QMul(a, b) == QNorm(a[1] * b[1], a[2] * b[2])
QDiv(a, b) == QNorm(a[1] * b[2], a[2] * b[1])
QLt(a, b) == a[1] * b[2] < b[1] * a[2]
QGt(a, b) == QLt(b, a)
QGe(a, b) == a[1] * b[2] >= b[1] * a[2]
QIsFinite(a) == a[2] # 0

(***************************************************************************)
(* Clipper: Cohen-Sutherland (rasterizer/pipeline/clipper.pyx)             *)
(***************************************************************************)
\* mutant: points on the window border count as outside
compute_outcode_open(x, y, min_x, min_y, max_x, max_y) ==
  (IF QGe(min_x, x) THEN 1 ELSE IF QGe(x, max_x) THEN 2 ELSE 0)
  + (IF QGe(min_y, y) THEN 4 ELSE IF QGe(y, max_y) THEN 8 ELSE 0)

\* code |= 1 / 2 and code |= 4 / 8 set disjoint bits of a zero code
compute_outcode(x, y, min_x, min_y, max_x, max_y) ==
  (IF QLt(x, min_x) THEN 1 ELSE IF QGt(x, max_x) THEN 2 ELSE 0)
  + (IF QLt(y, min_y) THEN 4 ELSE IF QGt(y, max_y) THEN 8 ELSE 0)

HasBit(code, bit) == BitAnd16(code, bit, 4) # 0

\* lines 61-72: the point where the segment meets the boundary named by outcode_out,
\* with the divisor of the division it makes
clip_point(outcode_out, x1, y1, x2, y2, min_x, min_y, max_x, max_y) ==
  IF HasBit(outcode_out, 8)
  THEN <<QAdd(x1, QDiv(QMul(QSub(x2, x1), QSub(max_y, y1)), QSub(y2, y1))), max_y, QSub(y2, y1)>>
  ELSE IF HasBit(outcode_out, 4)
  THEN <<QAdd(x1, QDiv(QMul(QSub(x2, x1), QSub(min_y, y1)), QSub(y2, y1))), min_y, QSub(y2, y1)>>
  ELSE IF HasBit(outcode_out, 2)
  THEN <<max_x, QAdd(y1, QDiv(QMul(QSub(y2, y1), QSub(max_x, x1)), QSub(x2, x1))), QSub(x2, x1)>>
  ELSE IF HasBit(outcode_out, 1)
  THEN <<min_x, QAdd(y1, QDiv(QMul(QSub(y2, y1), QSub(min_x, x1)), QSub(x2, x1))), QSub(x2, x1)>>
  ELSE <<Q(0), Q(0), Q(1)>>

\* the while True loop of clip_line; clips counts the endpoints clipped, div0 tells
\* whether a division had a zero divisor; fuel caps the unrolling
RECURSIVE clip_line_loop(_, _, _, _, _, _, _, _, _, _, _, _, _)
\* mutant: the outcode of the moved endpoint is not computed again
clip_line_move_stale(c, outcode_out, x1, y1, x2, y2, outcode0, outcode1, min_x, min_y, max_x, max_y, clips, div0, fuel) ==
  IF outcode_out = outcode0
  THEN clip_line_loop(c[1], c[2], x2, y2, outcode0, outcode1,
                      min_x, min_y, max_x, max_y, clips + 1, div0 \/ c[3][1] = 0, fuel - 1)
  ELSE clip_line_loop(x1, y1, c[1], c[2], outcode0, outcode1,
                      min_x, min_y, max_x, max_y, clips + 1, div0 \/ c[3][1] = 0, fuel - 1)

\* lines 74-81: the clipped endpoint c replaces the endpoint outcode_out belongs to
clip_line_move(c, outcode_out, x1, y1, x2, y2, outcode0, outcode1, min_x, min_y, max_x, max_y, clips, div0, fuel) ==
  IF outcode_out = outcode0
  THEN clip_line_loop(c[1], c[2], x2, y2,
                      compute_outcode(c[1], c[2], min_x, min_y, max_x, max_y), outcode1,
                      min_x, min_y, max_x, max_y, clips + 1, div0 \/ c[3][1] = 0, fuel - 1)
  ELSE clip_line_loop(x1, y1, c[1], c[2], outcode0,
                      compute_outcode(c[1], c[2], min_x, min_y, max_x, max_y),
                      min_x, min_y, max_x, max_y, clips + 1, div0 \/ c[3][1] = 0, fuel - 1)

clip_line_loop(x1, y1, x2, y2, outcode0, outcode1, min_x, min_y, max_x, max_y, clips, div0, fuel) ==
  IF BitOr16(outcode0, outcode1, 4) = 0
  THEN [clips |-> clips, div0 |-> div0, accepted |-> TRUE, line |-> <<x1, y1, x2, y2>>,
        stopped |-> TRUE]
  ELSE IF BitAnd16(outcode0, outcode1, 4) # 0
  THEN [clips |-> clips, div0 |-> div0, accepted |-> FALSE, line |-> <<>>, stopped |-> TRUE]
  ELSE IF fuel = 0
  THEN [clips |-> clips, div0 |-> div0, accepted |-> FALSE, line |-> <<>>, stopped |-> FALSE]
  ELSE clip_line_move(clip_point(IF outcode0 # 0 THEN outcode0 ELSE outcode1,
                                 x1, y1, x2, y2, min_x, min_y, max_x, max_y),
                      IF outcode0 # 0 THEN outcode0 ELSE outcode1,
                      x1, y1, x2, y2, outcode0, outcode1, min_x, min_y, max_x, max_y,
                      clips, div0, fuel)

\* the unrolling allowed to the loop of clip_line
ClipFuel == 8

clip_line(x1, y1, x2, y2, min_x, min_y, max_x, max_y) ==
  clip_line_loop(x1, y1, x2, y2,
                 compute_outcode(x1, y1, min_x, min_y, max_x, max_y),
                 compute_outcode(x2, y2, min_x, min_y, max_x, max_y),
                 min_x, min_y, max_x, max_y, 0, FALSE, ClipFuel)

(***************************************************************************)
(* Clipper: Sutherland-Hodgman.  A Vertex is <<x, y, u, v>>.               *)
(***************************************************************************)
Coord(p, axis_idx) == IF axis_idx = 0 THEN p[1] ELSE p[2]

\* p1 + (p2 - p1) * t
Lerp(c1, c2, t) == QAdd(c1, QMul(QSub(c2, c1), t))

\* mutant: the new vertex keeps the UV of p1
intersect_at_flat(p1, p2, t) ==
  <<Lerp(p1[1], p2[1], t), Lerp(p1[2], p2[2], t), p1[3], p1[4]>>

\* lines 206-210: res.x, res.y, res.u, res.v
intersect_at(p1, p2, t) ==
  <<Lerp(p1[1], p2[1], t), Lerp(p1[2], p2[2], t), Lerp(p1[3], p2[3], t), Lerp(p1[4], p2[4], t)>>

intersect(p1, p2, clip_val, axis_idx) ==
  IF QSub(Coord(p2, axis_idx), Coord(p1, axis_idx)) = Q(0) THEN p1
  ELSE intersect_at(p1, p2, QDiv(QSub(clip_val, Coord(p1, axis_idx)),
                                 QSub(Coord(p2, axis_idx), Coord(p1, axis_idx))))

\* mutant: a vertex on the boundary counts as outside
is_in_strict(val, boundary, sign) == QGt(QMul(val, sign), QMul(boundary, sign))

\* (val * sign) >= (boundary * sign)
is_in(val, boundary, sign) == QGe(QMul(val, sign), QMul(boundary, sign))

\* lines 169-190: the edge loop of _clip_axis from index i (1-based) on; output_len,
\* never negative, is read at the head so that the vertices are evaluated one by one
RECURSIVE clip_axis_loop(_, _, _, _, _, _, _)
clip_axis_loop(input_pts, i, p1, output_pts, boundary, axis_idx, sign) ==
  IF Len(output_pts) < 0 \/ i > Len(input_pts) THEN output_pts
  ELSE LET p2 == input_pts[i]
           is_p1_in == is_in(Coord(p1, axis_idx), boundary, sign)
           is_p2_in == is_in(Coord(p2, axis_idx), boundary, sign)
           out == IF is_p1_in /\ is_p2_in THEN Append(output_pts, p2)
                  ELSE IF is_p1_in /\ ~is_p2_in
                  THEN Append(output_pts, intersect(p1, p2, boundary, axis_idx))
                  ELSE IF ~is_p1_in /\ is_p2_in
                  THEN Append(Append(output_pts, intersect(p1, p2, boundary, axis_idx)), p2)
                  ELSE output_pts
       IN clip_axis_loop(input_pts, i + 1, p2, out, boundary, axis_idx, sign)

\* the vertices written to output_pts; output_len is their number
clip_axis(input_pts, boundary, axis_idx, sign) ==
  IF Len(input_pts) = 0 THEN <<>>
  ELSE clip_axis_loop(input_pts, 1, input_pts[Len(input_pts)], <<>>, boundary, axis_idx, sign)

\* lines 114-125: buffer_a filled from the input lists
load_vertices(input_points, input_uvs, has_uvs) ==
  [i \in 1 .. Len(input_points) |->
     <<input_points[i][1], input_points[i][2],
       IF has_uvs THEN input_uvs[i][1] ELSE Q(0),
       IF has_uvs THEN input_uvs[i][2] ELSE Q(0)>>]

\* mutant: fewer than 3 vertices are returned as they are
clip_return_short(capacity, lens, pts) ==
  [capacity |-> capacity, lens |-> lens,
   verts |-> [i \in 1 .. Len(pts) |-> <<pts[i][1], pts[i][2]>>],
   uvs |-> [i \in 1 .. Len(pts) |-> <<pts[i][3], pts[i][4]>>]]

\* lines 135-150: the arrays returned from buffer_a; lens are the vertex counts
\* before the first pass and after each of the four passes
clip_return(capacity, lens, pts) ==
  IF Len(pts) < 3
  THEN [capacity |-> capacity, lens |-> lens, verts |-> <<>>, uvs |-> <<>>]
  ELSE [capacity |-> capacity, lens |-> lens,
        verts |-> [i \in 1 .. Len(pts) |-> <<pts[i][1], pts[i][2]>>],
        uvs |-> [i \in 1 .. Len(pts) |-> <<pts[i][3], pts[i][4]>>]]

\* lines 130-133: the passes from the k-th on; passes[k] is <<boundary, axis_idx, sign>>
RECURSIVE clip_passes(_, _, _, _, _)
clip_pass_done(capacity, lens, pts, passes, k) ==
  clip_passes(capacity, Append(lens, Len(pts)), pts, passes, k + 1)

clip_passes(capacity, lens, pts, passes, k) ==
  IF k > Len(passes) THEN clip_return(capacity, lens, pts)
  ELSE clip_pass_done(capacity, lens,
                      clip_axis(pts, passes[k][1], passes[k][2], passes[k][3]), passes, k)

\* uvs_given is "input_uvs is not None"; capacity is the size of the two buffers
clip_polygon(input_points, uvs_given, input_uvs, min_x, min_y, max_x, max_y) ==
  IF Len(input_points) = 0
  THEN [capacity |-> 0, lens |-> <<0>>, verts |-> <<>>, uvs |-> <<>>]
  ELSE clip_passes(Len(input_points) * 2 + 16, <<Len(input_points)>>,
                   load_vertices(input_points, input_uvs,
                                 uvs_given /\ Len(input_uvs) = Len(input_points)),
                   <<(<<min_x, 0, Q(1)>>), (<<max_x, 0, Q(0 - 1)>>),
                     (<<min_y, 1, Q(1)>>), (<<max_y, 1, Q(0 - 1)>>)>>, 1)

(***************************************************************************)
(* Segment clipping calls                                                  *)
(***************************************************************************)
\* the largest clip-window coordinate; segments reach one unit beyond it
WindowMax == 3

SegCoords == (0 - 1) .. (WindowMax + 1)
WindowCoords == 0 .. WindowMax

CallClipLine ==
  op = "init" /\ \E x1 \in SegCoords, y1 \in SegCoords, x2 \in SegCoords, y2 \in SegCoords,
                     min_x \in WindowCoords, max_x \in WindowCoords,
                     ys \in {<<1, 1>>, <<1, 2>>, <<0, WindowMax>>} :
    /\ min_x <= max_x
    /\ LET min_y == ys[1]
           max_y == ys[2] IN
       Returned("clip_line",
                [x1 |-> x1, y1 |-> y1, x2 |-> x2,
                 min_x |-> min_x, min_y |-> min_y, max_x |-> max_x, max_y |-> max_y, y2 |-> y2],
                clip_line(Q(x1), Q(y1), Q(x2), Q(y2), Q(min_x), Q(min_y), Q(max_x), Q(max_y)))

NextClipLine == CallClipLine \/ Release

SpecClipLine == Init /\ [][NextClipLine]_vars

\* the sign of the cross product (b - a) x (c - a) of integer points
Orient(a, b, c) == Sign((b[1] - a[1]) * (c[2] - a[2]) - (b[2] - a[2]) * (c[1] - a[1]))

\* c lies in the bounding box of a and b
InBox(a, b, c) ==
  /\ (IF a[1] < b[1] THEN a[1] ELSE b[1]) <= c[1] /\ c[1] <= (IF a[1] < b[1] THEN b[1] ELSE a[1])
  /\ (IF a[2] < b[2] THEN a[2] ELSE b[2]) <= c[2] /\ c[2] <= (IF a[2] < b[2] THEN b[2] ELSE a[2])

\* the closed segments ab and cd share a point
SegmentsMeet(a, b, c, d) ==
  \/ (Orient(a, b, c) * Orient(a, b, d) < 0 /\ Orient(c, d, a) * Orient(c, d, b) < 0)
  \/ (Orient(a, b, c) = 0 /\ InBox(a, b, c))
  \/ (Orient(a, b, d) = 0 /\ InBox(a, b, d))
  \/ (Orient(c, d, a) = 0 /\ InBox(c, d, a))
  \/ (Orient(c, d, b) = 0 /\ InBox(c, d, b))

\* the closed segment ab has a point in the closed window
SegmentMeetsWindow(a, b, min_x, min_y, max_x, max_y) ==
  \/ (min_x <= a[1] /\ a[1] <= max_x /\ min_y <= a[2] /\ a[2] <= max_y)
  \/ (min_x <= b[1] /\ b[1] <= max_x /\ min_y <= b[2] /\ b[2] <= max_y)
  \/ SegmentsMeet(a, b, <<min_x, min_y>>, <<max_x, min_y>>)
  \/ SegmentsMeet(a, b, <<max_x, min_y>>, <<max_x, max_y>>)
  \/ SegmentsMeet(a, b, <<max_x, max_y>>, <<min_x, max_y>>)
  \/ SegmentsMeet(a, b, <<min_x, max_y>>, <<min_x, min_y>>)

\* C9: for every segment and window with min_x <= max_x and min_y <= max_y,
\* clip_line returns accepted = true iff the segment has a point in the closed
\* window, and otherwise returns (None, False).
ClipLineAcceptsIffMeets ==
  op = "clip_line" =>
    /\ result.stopped
    /\ result.accepted <=> SegmentMeetsWindow(<<args.x1, args.y1>>, <<args.x2, args.y2>>,
                                             args.min_x, args.min_y, args.max_x, args.max_y)
    /\ ~result.accepted => result.line = <<>>
    /\ result.accepted => Len(result.line) = 4

\* a segment with both endpoints outside that crosses the window, each end clipped twice
ClipLineWitness ==
  /\ op = "clip_line" /\ result.accepted /\ result.clips = 4
  /\ args.x1 = 0 - 1 /\ args.y1 = 0 /\ args.x2 = 4 /\ args.y2 = 3
  /\ args.min_x = 1 /\ args.max_x = 2 /\ args.min_y = 1 /\ args.max_y = 2

(***************************************************************************)
(* Polygon clipping calls                                                  *)
(***************************************************************************)
\* the largest coordinate of a triangle vertex
PolyMax == 3

PolyCoords == (0 - 1) .. PolyMax
PolyPoints == PolyCoords \X PolyCoords
QuadPoints == {0 - 1, 0, 2} \X {0 - 1, 0, 2}

\* the UV carried by the i-th input vertex
UVTable == <<(<<0, 0>>), (<<1, 0>>), (<<1, 1>>), (<<0, 1>>)>>

ClipWindows == {<<0, 0, 2, 2>>, <<1, 0, PolyMax, 1>>}

QPoints(pts) == [i \in 1 .. Len(pts) |-> <<Q(pts[i][1]), Q(pts[i][2])>>]

\* lines 179-187: a pass stored a vertex at output_pts[capacity] or beyond
clip_overrun(r) == \E k \in 2 .. Len(r.lens) : r.lens[k] > r.capacity

\* the call cut off in the first pass that stores past its buffer: lens ends with the
\* last pass that was finished, and nothing is returned
clip_stopped(r) ==
  [r EXCEPT !.lens = SubSeq(@, 1, CHOOSE k \in 1 .. (Len(r.lens) - 1) :
                                    /\ r.lens[k + 1] > r.capacity
                                    /\ \A j \in 2 .. k : r.lens[j] <= r.capacity),
            !.verts = <<>>, !.uvs = <<>>]

\* The store past the end of a buffer is undefined behaviour: the call either runs on
\* as if the buffer were longer, or the process stops in that pass.
ClipPolygonOutcome(a, r) ==
  \E stops \in {FALSE, clip_overrun(r)} :
    Returned("clip_polygon", a, IF stops THEN clip_stopped(r) ELSE r)

ClipPolygonCall(pts, uvs_given, uvs, win) ==
  \E r \in {clip_polygon(QPoints(pts), uvs_given, QPoints(uvs),
                          Q(win[1]), Q(win[2]), Q(win[3]), Q(win[4]))} :
    ClipPolygonOutcome([uvs |-> uvs, uvs_given |-> uvs_given, points |-> pts, window |-> win], r)

\* how often the zigzag is walked round
ZigzagTurns == 6

\* two spikes from the upper left to the lower right across the window <<0, 0, 2, 2>>
Zigzag == <<(<<0 - 4, 5>>), (<<3, 0 - 1>>), (<<0 - 4, 6>>), (<<3, 0>>)>>

\* s walked round k times
Repeated(s, k) == [i \in 1 .. Len(s) * k |-> s[((i - 1) % Len(s)) + 1]]

\* s rotated left by k places
Rotated(s, k) == [i \in 1 .. Len(s) |-> s[((i - 1 + k) % Len(s)) + 1]]

\* the axis-aligned square with corners (lo, lo) and (hi, hi), from (lo, lo) on
Square(lo, hi) == <<(<<lo, lo>>), (<<hi, lo>>), (<<hi, hi>>), (<<lo, hi>>)>>

CallClipPolygon ==
  op = "init" /\
    \/ \E a \in PolyPoints, b \in PolyPoints, c \in QuadPoints, win \in ClipWindows :
         ClipPolygonCall(<<a, b, c>>, TRUE, SubSeq(UVTable, 1, 3), win)
    \/ \E a \in QuadPoints, b \in QuadPoints, c \in QuadPoints,
          d \in {<<0, 0>>, <<2, 2>>, <<0 - 1, 2>>}, uvs_given \in BOOLEAN :
         ClipPolygonCall(<<a, b, c, d>>, uvs_given,
                         IF uvs_given THEN UVTable ELSE <<>>, <<0, 0, 2, 2>>)
    \/ \E a \in QuadPoints, b \in QuadPoints, n \in 0 .. 2 :
         ClipPolygonCall(SubSeq(<<a, b>>, 1, n), TRUE, SubSeq(UVTable, 1, 1), <<0, 0, 2, 2>>)
    \/ \E lo \in {0 - 1, 0}, hi \in {2, PolyMax}, k \in 0 .. 3 :
         ClipPolygonCall(Rotated(Square(lo, hi), k), TRUE, UVTable, <<0, 0, 2, 2>>)
    \/ \E turns \in 1 .. ZigzagTurns :
         ClipPolygonCall(Repeated(Zigzag, turns), FALSE, <<>>, <<0, 0, 2, 2>>)

NextClipPolygon == CallClipPolygon \/ Release

SpecClipPolygon == Init /\ [][NextClipPolygon]_vars

AllInsideWindow(pts, win) ==
  \A i \in 1 .. Len(pts) :
    /\ win[1] <= pts[i][1] /\ pts[i][1] <= win[3]
    /\ win[2] <= pts[i][2] /\ pts[i][2] <= win[4]

\* the output lists are the input lists from the same starting vertex on
SameCycle(verts, uvs, in_verts, in_uvs) ==
  /\ Len(verts) = Len(in_verts) /\ Len(uvs) = Len(in_verts)
  /\ \E k \in 0 .. (Len(in_verts) - 1) :
       verts = Rotated(in_verts, k) /\ uvs = Rotated(in_uvs, k)

\* C10: for a polygon of at least 3 vertices all inside the closed clip window,
\* clip_polygon returns the same vertices and the same UVs in the same cyclic
\* order, none added, dropped or moved (a polygon given without a UV per vertex
\* carries the UV (0, 0) on every vertex).
ClipPolygonInsideIdentity ==
  (/\ op = "clip_polygon" /\ Len(args.points) >= 3
   /\ AllInsideWindow(args.points, args.window)) =>
    SameCycle(result.verts, result.uvs, QPoints(args.points),
              IF args.uvs_given /\ Len(args.uvs) = Len(args.points)
              THEN QPoints(args.uvs)
              ELSE [i \in 1 .. Len(args.points) |-> <<Q(0), Q(0)>>])

\* a triangle with two vertices on the window boundary, one of them a corner
ClipPolygonInsideWitness ==
  /\ op = "clip_polygon" /\ args.window = <<0, 0, 2, 2>>
  /\ args.points = <<(<<1, 1>>), (<<2, 1>>), (<<0, 2>>)>>
  /\ Len(result.verts) = 3 /\ <<Q(1), Q(0)>> \in {result.uvs[i] : i \in 1 .. 3}

IsSquareExample ==
  /\ op = "clip_polygon" /\ args.points = Square(0 - 1, 3)
  /\ args.uvs_given /\ args.uvs = UVTable /\ args.window = <<0, 0, 2, 2>>

Quarter == QDiv(Q(1), Q(4))
ThreeQuarters == QDiv(Q(3), Q(4))

\* C11: clipping the square (-1,-1),(3,-1),(3,3),(-1,3) with the UVs (0,0),(1,0),
\* (1,1),(0,1) to the window [0,2] x [0,2] returns exactly four vertices, the
\* corners (0,0),(2,0),(2,2),(0,2) in that cyclic order, carrying the UVs
\* (1/4,1/4),(3/4,1/4),(3/4,3/4),(1/4,3/4) respectively.
ClipSquareExample ==
  IsSquareExample =>
    SameCycle(result.verts, result.uvs, QPoints(Square(0, 2)),
              <<(<<Quarter, Quarter>>), (<<ThreeQuarters, Quarter>>),
                (<<ThreeQuarters, ThreeQuarters>>), (<<Quarter, ThreeQuarters>>)>>)

\* the returned arrays start at the corner (0, 2), cut last by the max_y pass
ClipSquareWitness ==
  /\ IsSquareExample /\ Len(result.verts) = 4
  /\ result.verts[1] = <<Q(0), Q(2)>> /\ result.uvs[1] = <<Quarter, ThreeQuarters>>
  /\ result.verts[2] = <<Q(0), Q(0)>> /\ result.uvs[2] = <<Quarter, Quarter>>

(***************************************************************************)
(* Casts of doubles, and the batch of points (primitives/point.pyx)        *)
(***************************************************************************)
\* <int> d: the C conversion truncates toward zero
QTrunc(a) == IF a[1] >= 0 THEN a[1] \div a[2] ELSE 0 - ((0 - a[1]) \div a[2])

\* floor(d)
QFloor(a) == a[1] \div a[2]

\* lines 31-37: points is a list of Vector2 <<x, y>>
RECURSIVE points_loop(_, _, _, _, _, _)
points_loop(st, w, h, points, i, color) ==
  IF ~Sequenced(st) \/ i > Len(points) THEN st
  ELSE points_loop(IF in_bounds(QTrunc(points[i][1]), QTrunc(points[i][2]), w, h)
                   THEN BlendAt(st, QTrunc(points[i][1]), QTrunc(points[i][2]), color)
                   ELSE st,
                   w, h, points, i + 1, color)

draw_points(fb, points, color) == points_loop(Start(fb), fb.w, fb.h, points, 1, color)

(***************************************************************************)
(* Samplers (unnamed/part_004).  A texture is a record [px, w, h] like a   *)
(* framebuffer; a read outside its storage yields the zero word.           *)
(***************************************************************************)
TexLoad(tex_data, x, y) ==
  IF <<x, y>> \in DOMAIN tex_data.px THEN tex_data.px[<<x, y>>] ELSE ZeroWord

\* the C remainder: the sign of the dividend
CRem(val, max_dim) == IF val >= 0 THEN val % max_dim ELSE 0 - ((0 - val) % max_dim)

wrap_coord(val, max_dim) == CRem(CRem(val, max_dim) + max_dim, max_dim)

\* mutant: the whole part is cut off toward zero
frac_trunc(u) == QSub(u, Q(QTrunc(u)))

\* u - floor(u)
Frac(u) == QSub(u, Q(QFloor(u)))

\* lines 26-30: the clamps of sample_nearest on one axis
nearest_clamp(x, w) == IF (IF x >= w THEN w - 1 ELSE x) < 0 THEN 0 ELSE (IF x >= w THEN w - 1 ELSE x)

\* lines 20-30: the index <<x, y>> of the texel read
nearest_texel(w, h, u, v) ==
  <<nearest_clamp(QTrunc(QMul(Frac(u), Q(w))), w),
    nearest_clamp(QTrunc(QMul(Frac(v), Q(h))), h)>>

sample_nearest(tex_data, w, h, u, v) ==
  TexLoad(tex_data, nearest_texel(w, h, u, v)[1], nearest_texel(w, h, u, v)[2])

\* lines 75-88: one channel of the four texels blended by the weights wx, wy
bilinear_channel(c00, c10, c01, c11, wx, wy) ==
  ToU8(QTrunc(QAdd(QMul(QAdd(QMul(Q(c00), QSub(Q(1), wx)), QMul(Q(c10), wx)), QSub(Q(1), wy)),
                   QMul(QAdd(QMul(Q(c01), QSub(Q(1), wx)), QMul(Q(c11), wx)), wy))))

\* lines 60-90: the texels at the wrapped corners, mixed channel by channel
bilinear_mix(c00, c10, c01, c11, wx, wy) ==
  pack_rgba(bilinear_channel(c00.r, c10.r, c01.r, c11.r, wx, wy),
            bilinear_channel(c00.g, c10.g, c01.g, c11.g, wx, wy),
            bilinear_channel(c00.b, c10.b, c01.b, c11.b, wx, wy),
            bilinear_channel(c00.a, c10.a, c01.a, c11.a, wx, wy))

\* lines 44-63: px, py are u * w - 0.5 and v * h - 0.5; x0, y0 their floors
bilinear_at(tex_data, w, h, px, py, x0, y0) ==
  bilinear_mix(unpack_rgba(TexLoad(tex_data, wrap_coord(x0, w), wrap_coord(y0, h))),
               unpack_rgba(TexLoad(tex_data, wrap_coord(x0 + 1, w), wrap_coord(y0, h))),
               unpack_rgba(TexLoad(tex_data, wrap_coord(x0, w), wrap_coord(y0 + 1, h))),
               unpack_rgba(TexLoad(tex_data, wrap_coord(x0 + 1, w), wrap_coord(y0 + 1, h))),
               QSub(px, Q(x0)), QSub(py, Q(y0)))

bilinear_from(tex_data, w, h, px, py) == bilinear_at(tex_data, w, h, px, py, QFloor(px), QFloor(py))

sample_bilinear(tex_data, w, h, u, v) ==
  bilinear_from(tex_data, w, h, QSub(QMul(Frac(u), Q(w)), <<1, 2>>),
                QSub(QMul(Frac(v), Q(h)), <<1, 2>>))

(***************************************************************************)
(* Scanline polygons (primitives/circle.pyx, lines 66-403).  A vertex is   *)
(* <<x, y, u, v>>; the filled polygon carries no UV and leaves the u, v    *)
(* fields of its edges unread.  An edge is a record of the Edge struct     *)
(* plus y_start, the row of the edge table it is linked into.              *)
(***************************************************************************)
\* lines 138-141: y_min_global and y_max_global after the vertices from i on
RECURSIVE poly_y_range(_, _, _, _)
poly_y_range(vertices, i, y_min_global, y_max_global) ==
  IF i > Len(vertices) THEN <<y_min_global, y_max_global>>
  ELSE poly_y_range(vertices, i + 1,
                    IF QLt(vertices[i][2], Q(y_min_global)) THEN QTrunc(vertices[i][2])
                    ELSE y_min_global,
                    IF QGt(vertices[i][2], Q(y_max_global)) THEN QTrunc(vertices[i][2])
                    ELSE y_max_global)

\* lines 143-144: the clamps of the row range
poly_rows_clamped(r, h) ==
  <<IF r[1] < 0 THEN 0 ELSE r[1], IF r[2] >= h THEN h - 1 ELSE r[2]>>

\* the rows <<y_min_global, y_max_global>> the scan visits
poly_rows(vertices, h) == poly_rows_clamped(poly_y_range(vertices, 1, h, 0), h)

\* lines 317-326 (and 171-175): the node of the edge from lo up to hi; dy_inv is 1 / (p2y - p1y)
new_edge(lo, hi, dy_inv) ==
  [x |-> lo[1], u |-> lo[3], dx |-> QMul(QSub(hi[1], lo[1]), dy_inv), v |-> lo[4],
   y_max |-> QTrunc(hi[2]), du |-> QMul(QSub(hi[3], lo[3]), dy_inv),
   dv |-> QMul(QSub(hi[4], lo[4]), dy_inv), y_start |-> QTrunc(lo[2])]

\* lines 165-169: an edge wholly below the last row or above the first is skipped
edge_between(lo, hi, h) ==
  IF QTrunc(lo[2]) >= h \/ QTrunc(hi[2]) < 0 THEN <<>>
  ELSE <<new_edge(lo, hi, QDiv(Q(1), QSub(hi[2], lo[2])))>>

\* lines 158-163: the edge of two consecutive vertices, none when both truncate to one row
poly_edge(p1, p2, h) ==
  IF QTrunc(p1[2]) = QTrunc(p2[2]) THEN <<>>
  ELSE IF QGt(p1[2], p2[2]) THEN edge_between(p2, p1, h)
  ELSE edge_between(p1, p2, h)

\* lines 152-178: the edges allocated, in the order of their insertion
RECURSIVE poly_edges(_, _, _)
poly_edges(vertices, i, h) ==
  IF i > Len(vertices) THEN <<>>
  ELSE poly_edge(vertices[i], vertices[(i % Len(vertices)) + 1], h) \o poly_edges(vertices, i + 1, h)

\* GET[y_start] = new_edge with y_start < 0 stores in front of the edge table
stray_edges(edges) == {i \in 1 .. Len(edges) : edges[i].y_start < 0}

Reversed(s) == [i \in 1 .. Len(s) |-> s[Len(s) + 1 - i]]

\* the list GET[y]: each edge is linked in at the head, so the last inserted comes first
get_row(edges, y) == Reversed(SelectSeq(edges, LAMBDA e : e.y_start = y))

\* lines 185-194: the nodes of GET[y] copied to the end of AET
RECURSIVE aet_load(_, _, _, _)
aet_load(AET, nodes, i, edges_count) ==
  IF i > Len(nodes) THEN AET
  ELSE aet_load(IF Len(AET) < edges_count THEN Append(AET, nodes[i]) ELSE AET,
                nodes, i + 1, edges_count)

\* lines 198-203: the edges that end at or above row y are dropped
aet_keep(AET, y) == SelectSeq(AET, LAMBDA e : e.y_max > y)

\* e placed behind the k first entries
edge_insert_at(sorted, e, k) == SubSeq(sorted, 1, k) \o <<e>> \o SubSeq(sorted, k + 1, Len(sorted))

\* line 205: qsort by x with compare_edges; entries of equal x keep their order
RECURSIVE sort_edges(_, _, _)
sort_edges(AET, i, sorted) ==
  IF i > Len(AET) THEN sorted
  ELSE sort_edges(AET, i + 1,
                  edge_insert_at(sorted, AET[i],
                                 Cardinality({k \in 1 .. Len(sorted) : ~QGt(sorted[k].x, AET[i].x)})))

\* the active edges at row y when the spans are emitted
aet_at_row(AET, edges, y, edges_count) ==
  sort_edges(aet_keep(aet_load(AET, get_row(edges, y), 1, edges_count), y), 1, <<>>)

\* lines 218-219
aet_step(AET) == [j \in 1 .. Len(AET) |-> [AET[j] EXCEPT !.x = QAdd(@, AET[j].dx)]]

\* lines 397-400
aet_step_uv(AET) ==
  [j \in 1 .. Len(AET) |-> [AET[j] EXCEPT !.x = QAdd(@, AET[j].dx), !.u = QAdd(@, AET[j].du),
                                          !.v = QAdd(@, AET[j].dv)]]

\* lines 214-216
fill_span_clamped(st, x_start, x_end, y, color) ==
  IF x_start < x_end THEN span_loop(st, x_start, x_end - 1, y, color) ELSE st

\* mutant: x_start is not raised to 0
fill_span_unclamped(st, x_start, x_end, y, w, color) ==
  fill_span_clamped(st, x_start, IF x_end > w THEN w ELSE x_end, y, color)

\* lines 208-212
fill_span(st, x_start, x_end, y, w, color) ==
  fill_span_clamped(st, IF x_start < 0 THEN 0 ELSE x_start, IF x_end > w THEN w ELSE x_end,
                    y, color)

\* lines 207-216: the pairs (j, j + 1) of active edges, j counted from 1
RECURSIVE fill_spans(_, _, _, _, _, _)
fill_spans(st, AET, j, y, w, color) ==
  IF ~Sequenced(st) \/ j + 1 > Len(AET) THEN st
  ELSE fill_spans(fill_span(st, QTrunc(AET[j].x), QTrunc(AET[j + 1].x), y, w, color),
                  AET, j + 2, y, w, color)

\* lines 183-219: the rows from y on
RECURSIVE fill_scan(_, _, _, _, _, _, _)
fill_row(st, edges, AET, y, y_max_global, w, color) ==
  fill_scan(fill_spans(st, AET, 1, y, w, color), edges, aet_step(AET), y + 1, y_max_global,
            w, color)

fill_scan(st, edges, AET, y, y_max_global, w, color) ==
  IF ~Sequenced(st) \/ y > y_max_global THEN st
  ELSE fill_row(st, edges, aet_at_row(AET, edges, y, Len(edges)), y, y_max_global, w, color)

\* the vertex rows of a polygon drawn without a texture
Untextured(vertices) ==
  [i \in 1 .. Len(vertices) |-> <<vertices[i][1], vertices[i][2], Q(0), Q(0)>>]

polygon_filled_rows(fb, vertices, rows, color) ==
  IF rows[1] > rows[2] THEN Start(fb)
  ELSE fill_scan(Start(fb), poly_edges(Untextured(vertices), 1, fb.h), <<>>, rows[1], rows[2],
                 fb.w, color)

draw_polygon_filled(fb, vertices, color) ==
  IF Len(vertices) < 3 THEN Start(fb)
  ELSE polygon_filled_rows(fb, vertices, poly_rows(vertices, fb.h), color)

\* lines 233-239: one line per vertex and its successor
RECURSIVE outline_loop(_, _, _, _, _, _)
outline_loop(st, w, h, vertices, i, color) ==
  IF ~Sequenced(st) \/ i > Len(vertices) THEN st
  ELSE outline_loop(rasterize_line_c(st, w, h,
                                     QTrunc(vertices[i][1]), QTrunc(vertices[i][2]),
                                     QTrunc(vertices[(i % Len(vertices)) + 1][1]),
                                     QTrunc(vertices[(i % Len(vertices)) + 1][2]), color),
                    w, h, vertices, i + 1, color)

draw_polygon_outline(fb, vertices, color) ==
  outline_loop(Start(fb), fb.w, fb.h, vertices, 1, color)

AllOnes == <<65535, 65535>>  \* 0xFFFFFFFF

\* lines 389-390
modulated(tex_col, modulate) ==
  IF modulate # AllOnes THEN blend_colors(tex_col, modulate) ELSE tex_col

\* lines 386-395: sampler is <<texture, tex_w, tex_h, modulate>>, cur is <<cur_u, cur_v>>
RECURSIVE tex_span_loop(_, _, _, _, _, _, _)
tex_span_loop(st, x, x_end, y, cur, step, sampler) ==
  IF ~Sequenced(st) \/ x >= x_end THEN st
  ELSE tex_span_loop(BlendAt(st, x, y,
                             modulated(sample_nearest(sampler[1], sampler[2], sampler[3],
                                                      cur[1], cur[2]), sampler[4])),
                     x + 1, x_end, y, <<QAdd(cur[1], step[1]), QAdd(cur[2], step[2])>>, step,
                     sampler)

\* lines 376-384: step is <<du_dx, dv_dx>>
tex_span_stepped(st, x_start, x_end, y, w, start, step, sampler) ==
  tex_span_loop(st, IF x_start < 0 THEN 0 ELSE x_start, IF x_end > w THEN w ELSE x_end, y,
                IF x_start < 0
                THEN <<QAdd(start[1], QMul(step[1], Q(0 - x_start))),
                       QAdd(start[2], QMul(step[2], Q(0 - x_start)))>>
                ELSE start,
                step, sampler)

\* lines 363-374: the span between the active edges e1 and e2
tex_span(st, e1, e2, x_start, x_end, y, w, sampler) ==
  IF x_end > x_start
  THEN tex_span_stepped(st, x_start, x_end, y, w, <<e1.u, e1.v>>,
                        <<QDiv(QSub(e2.u, e1.u), Q(x_end - x_start)),
                          QDiv(QSub(e2.v, e1.v), Q(x_end - x_start))>>, sampler)
  ELSE st

RECURSIVE tex_spans(_, _, _, _, _, _)
tex_spans(st, AET, j, y, w, sampler) ==
  IF ~Sequenced(st) \/ j + 1 > Len(AET) THEN st
  ELSE tex_spans(tex_span(st, AET[j], AET[j + 1], QTrunc(AET[j].x), QTrunc(AET[j + 1].x),
                          y, w, sampler),
                 AET, j + 2, y, w, sampler)

\* lines 335-400: the rows from y on
RECURSIVE tex_scan(_, _, _, _, _, _, _)
tex_row(st, edges, AET, y, y_max_global, w, sampler) ==
  tex_scan(tex_spans(st, AET, 1, y, w, sampler), edges, aet_step_uv(AET), y + 1, y_max_global,
           w, sampler)

tex_scan(st, edges, AET, y, y_max_global, w, sampler) ==
  IF ~Sequenced(st) \/ y > y_max_global THEN st
  ELSE tex_row(st, edges, aet_at_row(AET, edges, y, Len(edges)), y, y_max_global, w, sampler)

\* the vertex rows <<x, y, u, v>> of a textured polygon
Textured(vertices, uvs) ==
  [i \in 1 .. Len(vertices) |-> <<vertices[i][1], vertices[i][2], uvs[i][1], uvs[i][2]>>]

polygon_textured_rows(fb, vertices, uvs, rows, sampler) ==
  IF rows[1] > rows[2] THEN Start(fb)
  ELSE tex_scan(Start(fb), poly_edges(Textured(vertices, uvs), 1, fb.h), <<>>, rows[1], rows[2],
                fb.w, sampler)

draw_polygon_textured(fb, vertices, uvs, texture, tex_w, tex_h, modulate) ==
  IF Len(vertices) < 3 THEN Start(fb)
  ELSE polygon_textured_rows(fb, vertices, uvs, poly_rows(vertices, fb.h),
                             <<texture, tex_w, tex_h, modulate>>)

(***************************************************************************)
(* Textured triangle (primitives/triangle.pyx).  A corner is <<x, y, u, v>> *)
(***************************************************************************)
\* lines 28-42: the three compare-and-swap steps on <<corner 0, corner 1, corner 2>>
tri_swap01(t) == IF QGt(t[1][2], t[2][2]) THEN <<t[2], t[1], t[3]>> ELSE t
\* mutant: the second step swaps x and y and leaves u and v in place
tri_swap02_bare(t) == IF QGt(t[1][2], t[3][2]) THEN <<(<<t[3][1], t[3][2], t[1][3], t[1][4]>>), t[2], (<<t[1][1], t[1][2], t[3][3], t[3][4]>>)>> ELSE t

tri_swap02(t) == IF QGt(t[1][2], t[3][2]) THEN <<t[3], t[2], t[1]>> ELSE t
tri_swap12(t) == IF QGt(t[2][2], t[3][2]) THEN <<t[1], t[3], t[2]>> ELSE t

tri_sort(t) == tri_swap12(tri_swap02(tri_swap01(t)))

\* the point <<x, u, v>> at parameter s between the corners p and q
tri_lerp(p, q, s) == <<Lerp(p[1], q[1], s), Lerp(p[3], q[3], s), Lerp(p[4], q[4], s)>>

\* lines 66-75: the point on the short side at step i
tri_short_side(t, i) ==
  IF QLt(Q(i), QSub(t[2][2], t[1][2]))
  THEN tri_lerp(t[1], t[2],
                IF QSub(t[2][2], t[1][2]) # Q(0) THEN QDiv(Q(i), QSub(t[2][2], t[1][2]))
                ELSE Q(0))
  ELSE tri_lerp(t[2], t[3],
                IF QSub(t[3][2], t[2][2]) # Q(0)
                THEN QDiv(QSub(Q(i), QSub(t[2][2], t[1][2])), QSub(t[3][2], t[2][2]))
                ELSE Q(0))

\* the texel chosen by use_bilinear; sampler is <<texture, tex_w, tex_h, use_bilinear>>
tri_sample(sampler, tu, tv) ==
  IF sampler[4] THEN sample_bilinear(sampler[1], sampler[2], sampler[3], tu, tv)
  ELSE sample_nearest(sampler[1], sampler[2], sampler[3], tu, tv)

\* lines 92-104: a and b are <<x, u, v>> with a left of b
RECURSIVE tri_span_loop(_, _, _, _, _, _, _, _, _, _)
tri_span_loop(st, x, end_x, y, w, a, b, t_curr, t_step, sampler) ==
  IF ~Sequenced(st) \/ x >= end_x THEN st
  ELSE tri_span_loop(IF x >= 0 /\ x < w
                     THEN BlendAt(st, x, y, tri_sample(sampler, Lerp(a[2], b[2], t_curr),
                                                       Lerp(a[3], b[3], t_curr)))
                     ELSE st,
                     x + 1, end_x, y, w, a, b, QAdd(t_curr, t_step), t_step, sampler)

\* lines 82-90
tri_span(st, start_x, end_x, y, w, a, b, sampler) ==
  tri_span_loop(st, start_x, end_x, y, w, a, b, Q(0),
                IF end_x > start_x THEN QDiv(Q(1), Q(end_x - start_x)) ELSE Q(0), sampler)

\* lines 77-83: the two row ends in the order of their x
tri_row(st, y, w, a, b, sampler) ==
  IF QGt(a[1], b[1]) THEN tri_span(st, QTrunc(b[1]), QTrunc(a[1]), y, w, b, a, sampler)
  ELSE tri_span(st, QTrunc(a[1]), QTrunc(b[1]), y, w, a, b, sampler)

\* lines 55-104: the rows from step i on
RECURSIVE tri_loop(_, _, _, _, _, _, _)
tri_loop(st, t, i, total_height, w, h, sampler) ==
  IF ~Sequenced(st) \/ i >= total_height THEN st
  ELSE IF QTrunc(t[1][2]) + i >= h THEN st
  ELSE IF QTrunc(t[1][2]) + i < 0 THEN tri_loop(st, t, i + 1, total_height, w, h, sampler)
  ELSE tri_loop(tri_row(st, QTrunc(t[1][2]) + i, w,
                        tri_lerp(t[1], t[3], QDiv(Q(i), Q(total_height))),
                        tri_short_side(t, i), sampler),
                t, i + 1, total_height, w, h, sampler)

\* lines 44-45
tri_sorted(fb, t, total_height, sampler) ==
  IF total_height = 0 THEN Start(fb)
  ELSE tri_loop(Start(fb), t, 0, total_height, fb.w, fb.h, sampler)

tri_draw(fb, t, sampler) == tri_sorted(fb, t, QTrunc(QSub(t[3][2], t[1][2])), sampler)

draw_triangle_textured(fb, vertices, uvs, texture, tex_w, tex_h, use_bilinear) ==
  tri_draw(fb, tri_sort(Textured(vertices, uvs)), <<texture, tex_w, tex_h, use_bilinear>>)

(***************************************************************************)
(* Point-batch, polygon and triangle calls                                 *)
(***************************************************************************)
\* one framebuffer wider than tall, one taller than wide
RasterFbs == {PatternFb(FbMax, 2), PatternFb(2, FbMax)}

GridCoords == {0 - Reach, 0, 1, FbMax}
GridPoints == {<<Q(x), Q(y)>> : x \in GridCoords, y \in GridCoords}

\* (1/2, -1/2) and (5/2, 3/2)
HalfPoints == {<<(<<1, 2>>), (<<0 - 1, 2>>)>>, <<(<<5, 2>>), (<<3, 2>>)>>}

CornerPoints == {<<Q(0 - Reach), Q(0 - Reach)>>, <<Q(FbMax), Q(1)>>}

CheckerTexture == PatternFb(2, 2)

\* the rows 1..n of UVTable as doubles
UVs(n) == QPoints(SubSeq(UVTable, 1, n))

CallDrawPoints ==
  op = "init" /\ \E fb \in RasterFbs, a \in GridPoints \cup HalfPoints, b \in GridPoints,
                     n \in 0 .. 2, color \in {HalfRed, OpaqueGreen} :
    Drawn("draw_points", [color |-> color, points |-> SubSeq(<<a, b>>, 1, n)], fb,
          draw_points(fb, SubSeq(<<a, b>>, 1, n), color))

\* an edge was stored in front of the edge table: the call got past both early returns
polygon_strays(fb, vertices, uvs) ==
  /\ Len(vertices) >= 3
  /\ poly_rows(vertices, fb.h)[1] <= poly_rows(vertices, fb.h)[2]
  /\ stray_edges(poly_edges(Textured(vertices, uvs), 1, fb.h)) # {}

\* The store in front of the edge table is undefined behaviour: the call either runs
\* on with the edge lost, or the process stops at the store, before any pixel is drawn.
PolygonFilledCall(fb, vertices, color, stray) ==
  \E aborted \in {FALSE, stray} :
    DrawnWith("draw_polygon_filled", [color |-> color, vertices |-> vertices], fb,
              IF aborted THEN Start(fb) ELSE draw_polygon_filled(fb, vertices, color),
              [stray |-> stray, aborted |-> aborted])

CallDrawPolygonFilled ==
  op = "init" /\
    \/ \E fb \in RasterFbs, a \in GridPoints, b \in GridPoints, c \in GridPoints \cup HalfPoints :
         PolygonFilledCall(fb, <<a, b, c>>, HalfRed,
                           polygon_strays(fb, <<a, b, c>>, <<a, b, c>>))
    \/ \E fb \in RasterFbs, a \in CornerPoints, b \in GridPoints, c \in CornerPoints,
          d \in GridPoints, n \in {2, 4} :
         PolygonFilledCall(fb, SubSeq(<<a, b, c, d>>, 1, n), OpaqueGreen,
                           polygon_strays(fb, SubSeq(<<a, b, c, d>>, 1, n), <<a, b, c, d>>))

CallDrawPolygonOutline ==
  op = "init" /\ \E fb \in RasterFbs, a \in GridPoints, b \in GridPoints,
                     c \in CornerPoints \cup HalfPoints, n \in 1 .. 3 :
    Drawn("draw_polygon_outline", [color |-> HalfRed, vertices |-> SubSeq(<<a, b, c>>, 1, n)],
          fb, draw_polygon_outline(fb, SubSeq(<<a, b, c>>, 1, n), HalfRed))

PolygonTexturedCall(fb, vertices, uvs, modulate, stray) ==
  \E aborted \in {FALSE, stray} :
    DrawnWith("draw_polygon_textured",
              [uvs |-> uvs, vertices |-> vertices, modulate |-> modulate], fb,
              IF aborted THEN Start(fb)
              ELSE draw_polygon_textured(fb, vertices, uvs, CheckerTexture, 2, 2, modulate),
              [stray |-> stray, aborted |-> aborted])

CallDrawPolygonTextured ==
  op = "init" /\ \E fb \in RasterFbs, a \in GridPoints, b \in GridPoints,
                     c \in GridPoints \cup HalfPoints, modulate \in {AllOnes, HalfRed} :
    PolygonTexturedCall(fb, <<a, b, c>>, UVs(3), modulate,
                        polygon_strays(fb, <<a, b, c>>, UVs(3)))

CallDrawTriangleTextured ==
  op = "init" /\ \E fb \in RasterFbs, a \in GridPoints, b \in GridPoints,
                     c \in CornerPoints \cup HalfPoints, use_bilinear \in BOOLEAN :
    Drawn("draw_triangle_textured",
          [uvs |-> UVs(3), vertices |-> <<a, b, c>>, use_bilinear |-> use_bilinear], fb,
          draw_triangle_textured(fb, <<a, b, c>>, UVs(3), CheckerTexture, 2, 2, use_bilinear))

NextRaster ==
  \/ CallDrawPoint \/ CallDrawPoints \/ CallDrawLine \/ CallFillRect \/ CallDrawRectOutline
  \/ CallDrawCircleFilled \/ CallDrawCircleOutline \/ CallDrawPolygonFilled
  \/ CallDrawPolygonOutline \/ CallDrawPolygonTextured \/ CallDrawTriangleTextured
  \/ Release

SpecRaster == Init /\ [][NextRaster]_vars

RasterOps ==
  {"draw_point", "draw_points", "draw_line", "fill_rect", "draw_rect_outline",
   "draw_circle_filled", "draw_circle_outline", "draw_polygon_filled",
   "draw_polygon_outline", "draw_polygon_textured", "draw_triangle_textured"}

Least(S) == CHOOSE n \in S : \A m \in S : n <= m
Greatest(S) == CHOOSE n \in S : \A m \in S : n >= m

\* ceil(d)
QCeil(a) == 0 - QFloor(<<0 - a[1], a[2]>>)

\* the box <<x_lo, y_lo, x_hi, y_hi>> of whole pixels around a list of points
PointsBox(pts) ==
  IF Len(pts) = 0 THEN <<0, 0, 0 - 1, 0 - 1>>
  ELSE <<Least({QFloor(pts[i][1]) : i \in 1 .. Len(pts)}),
         Least({QFloor(pts[i][2]) : i \in 1 .. Len(pts)}),
         Greatest({QCeil(pts[i][1]) : i \in 1 .. Len(pts)}),
         Greatest({QCeil(pts[i][2]) : i \in 1 .. Len(pts)})>>

\* the pixels the primitive of the last call extends over, before any clipping
CallBox ==
  CASE op = "draw_point" -> <<args.x, args.y, args.x, args.y>>
    [] op = "draw_points" -> PointsBox(args.points)
    [] op = "draw_line" ->
         <<Least({args.x0, args.x1}), Least({args.y0, args.y1}),
           Greatest({args.x0, args.x1}), Greatest({args.y0, args.y1})>>
    [] op = "fill_rect" -> <<args.x, args.y, args.x + args.w - 1, args.y + args.h - 1>>
    [] op = "draw_rect_outline" ->
         <<args.x - args.thickness, args.y - args.thickness,
           args.x + args.w - 1 + args.thickness, args.y + args.h - 1 + args.thickness>>
    [] op \in {"draw_circle_filled", "draw_circle_outline"} ->
         <<args.cx - args.r, args.cy - args.r, args.cx + args.r, args.cy + args.r>>
    [] OTHER -> PointsBox(args.vertices)

WithinBox(p, box) == box[1] <= p[1] /\ p[1] <= box[3] /\ box[2] <= p[2] /\ p[2] <= box[4]

AllWithin(targets, pixels, box) ==
  \A i \in 1 .. Len(targets) : targets[i] \in pixels /\ WithinBox(targets[i], box)

\* C1: every store of a rasterizer entry point targets a pixel (x, y) of the
\* framebuffer, 0 <= x < W and 0 <= y < H, that lies within the extent of the
\* primitive as given (a part outside the framebuffer is dropped, not moved onto
\* another pixel); every pixel that is not a store target keeps its value.
RasterWritesInBounds ==
  op \in RasterOps =>
    /\ AllWithin(writes, DOMAIN before.px, CallBox)
    /\ DOMAIN buffer.px = DOMAIN before.px
    /\ \A c \in DOMAIN before.px \ Written : buffer.px[c] = before.px[c]

\* a textured triangle with two vertices outside: its one span is cut at x = 0
RasterWritesWitness ==
  /\ op = "draw_polygon_textured" /\ before.w = 3 /\ before.h = 2
  /\ args.vertices = <<(<<Q(0 - 2), Q(0)>>), (<<Q(3), Q(1)>>), (<<Q(0), Q(3)>>)>>
  /\ ~result.aborted /\ writes = <<(<<0, 1>>), (<<1, 1>>), (<<2, 1>>)>>

(***************************************************************************)
(* Outline and fill of one polygon inside the framebuffer                  *)
(***************************************************************************)
SquareFb == PatternFb(FbMax, FbMax)

InsideCoords == 0 .. (FbMax - 1)
InsidePoints == InsideCoords \X InsideCoords

\* draw_polygon_outline on a framebuffer; beside it, the stores draw_polygon_filled
\* makes for the same vertex list on the same framebuffer
PolygonOutlineCall(fb, vertices, color) ==
  DrawnWith("draw_polygon_outline", [color |-> color, vertices |-> vertices], fb,
            draw_polygon_outline(fb, vertices, color),
            [fill |-> draw_polygon_filled(fb, vertices, color).log])

CallPolygonOutlineInside ==
  op = "init" /\
    \/ \E a \in InsidePoints, b \in InsidePoints, c \in InsidePoints :
         /\ Orient(a, b, c) # 0
         /\ PolygonOutlineCall(SquareFb, QPoints(<<a, b, c>>), HalfRed)
    \/ \E lo \in InsideCoords, hi \in InsideCoords, k \in 0 .. 3 :
         /\ lo < hi
         /\ PolygonOutlineCall(SquareFb, Rotated(QPoints(Square(lo, hi)), k), OpaqueGreen)

NextPolygon == CallPolygonOutlineInside \/ Release

SpecPolygon == Init /\ [][NextPolygon]_vars


\* C12: for every polygon with at least 3 integer vertices inside the
\* framebuffer, every pixel written by draw_polygon_outline is also written by
\* draw_polygon_filled for the same vertex list.
OutlineWithinFill ==
  (op = "draw_polygon_outline" /\ Len(args.vertices) >= 3) =>
    Written \subseteq {result.fill[i] : i \in 1 .. Len(result.fill)}

(***************************************************************************)
(* Scratch memory of the polygon fillers and of clip_polygon.  A block is  *)
(* <<kind, i>>; the malloc calls of one run are numbered from 1 and fail   *)
(* is the number of the call that returns NULL (0: none does).             *)
(***************************************************************************)
GetBlock == <<"GET", 0>>
AetBlock == <<"AET", 0>>
EdgeBlock(i) == <<"edge", i>>

\* no block allocated, the call on its way to a normal return
NoScratch == [mallocs |-> <<>>, frees |-> <<>>, failed |-> FALSE, null_deref |-> FALSE,
              returned |-> TRUE, raised |-> FALSE]

\* lines 172-177: the node of the i-th edge is allocated and written through unchecked;
\* stops says the run ends at a store in front of the edge table
RECURSIVE scratch_edges(_, _, _, _, _)
scratch_edges(hp, edges, i, fail, stops) ==
  IF i > Len(edges) THEN hp
  ELSE IF fail = i + 1
  THEN [hp EXCEPT !.failed = TRUE, !.null_deref = TRUE, !.returned = FALSE]
  ELSE IF stops /\ edges[i].y_start < 0
  THEN [hp EXCEPT !.mallocs = Append(@, EdgeBlock(i)), !.returned = FALSE]
  ELSE scratch_edges([hp EXCEPT !.mallocs = Append(@, EdgeBlock(i))], edges, i + 1, fail, stops)

\* the nodes of the list GET[y], head first
row_blocks(edges, y) ==
  Reversed(SelectSeq([i \in 1 .. Len(edges) |-> EdgeBlock(i)],
                     LAMBDA b : edges[b[2]].y_start = y))

\* lines 183-196: every node of a visited row is copied to AET, unchecked, and freed
RECURSIVE scratch_scan(_, _, _, _, _)
scratch_scan(hp, edges, y, y_max_global, aet_null) ==
  IF y > y_max_global THEN hp
  ELSE IF row_blocks(edges, y) # <<>> /\ aet_null
  THEN [hp EXCEPT !.null_deref = TRUE, !.returned = FALSE]
  ELSE scratch_scan([hp EXCEPT !.frees = @ \o row_blocks(edges, y)], edges, y + 1,
                    y_max_global, aet_null)

\* lines 221-222: free(AET); free(GET)
scratch_release(hp, aet_null) ==
  IF ~hp.returned THEN hp
  ELSE [hp EXCEPT !.frees = @ \o (IF aet_null THEN <<>> ELSE <<AetBlock>>) \o <<GetBlock>>]

\* line 181: AET = malloc(...), then the scan and the two frees
scratch_aet(hp, edges, rows, aet_null) ==
  IF ~hp.returned THEN hp
  ELSE scratch_release(scratch_scan([hp EXCEPT !.mallocs = IF aet_null THEN @
                                                              ELSE Append(@, AetBlock),
                                                 !.failed = aet_null],
                                    edges, rows[1], rows[2], aet_null),
                       aet_null)

\* lines 135-149 and on: the scratch blocks of one call of a polygon filler
polygon_scratch(num_verts, rows, edges, fail, stops) ==
  IF num_verts < 3 \/ rows[1] > rows[2] THEN NoScratch
  ELSE IF fail = 1 THEN [NoScratch EXCEPT !.failed = TRUE]
  ELSE scratch_aet(scratch_edges([NoScratch EXCEPT !.mallocs = <<GetBlock>>], edges, 1, fail,
                                 stops),
                   edges, rows, fail = Len(edges) + 2)

BufferA == <<"buffer_a", 0>>
BufferB == <<"buffer_b", 0>>

\* clipper.pyx lines 96-106 and 152-154: the two clip buffers
clip_scratch(input_count, fail) ==
  IF input_count = 0 THEN NoScratch
  ELSE IF fail = 1
  THEN [NoScratch EXCEPT !.mallocs = <<BufferB>>, !.frees = <<BufferB>>, !.failed = TRUE,
                         !.returned = FALSE, !.raised = TRUE]
  ELSE IF fail = 2
  THEN [NoScratch EXCEPT !.mallocs = <<BufferA>>, !.frees = <<BufferA>>, !.failed = TRUE,
                         !.returned = FALSE, !.raised = TRUE]
  ELSE [NoScratch EXCEPT !.mallocs = <<BufferA, BufferB>>, !.frees = <<BufferA, BufferB>>]

\* a polygon filler with its scratch blocks: nothing is drawn by a run that stops
\* or that returns at the failed allocation of the edge table
ScratchDrawn(name, a, fb, hp, st) ==
  DrawnWith(name, a, fb, IF hp.returned /\ ~hp.failed THEN st ELSE Start(fb), hp)

PolygonFilledScratch(fb, vertices, color, fail, stops) ==
  ScratchDrawn("draw_polygon_filled",
               [color |-> color, vertices |-> vertices, fail |-> fail], fb,
               polygon_scratch(Len(vertices), poly_rows(vertices, fb.h),
                               poly_edges(Untextured(vertices), 1, fb.h), fail, stops),
               draw_polygon_filled(fb, vertices, color))

PolygonTexturedScratch(fb, vertices, uvs, fail, stops) ==
  ScratchDrawn("draw_polygon_textured",
               [uvs |-> uvs, vertices |-> vertices, fail |-> fail], fb,
               polygon_scratch(Len(vertices), poly_rows(vertices, fb.h),
                               poly_edges(Textured(vertices, uvs), 1, fb.h), fail, stops),
               draw_polygon_textured(fb, vertices, uvs, CheckerTexture, 2, 2, AllOnes))

ScratchFb == PatternFb(2, FbMax)

CallPolygonFilledScratch ==
  op = "init" /\ \E a \in GridPoints, b \in GridPoints, c \in CornerPoints \cup HalfPoints,
                     n \in 2 .. 3, fail \in 0 .. 5, stops \in BOOLEAN :
    PolygonFilledScratch(ScratchFb, SubSeq(<<a, b, c>>, 1, n), HalfRed, fail, stops)

CallPolygonTexturedScratch ==
  op = "init" /\ \E a \in GridPoints, b \in GridPoints, c \in CornerPoints \cup HalfPoints,
                     fail \in 0 .. 5, stops \in BOOLEAN :
    PolygonTexturedScratch(ScratchFb, <<a, b, c>>, UVs(3), fail, stops)

CallClipPolygonScratch ==
  op = "init" /\ \E a \in QuadPoints, b \in QuadPoints, c \in QuadPoints, n \in {0, 2, 3},
                     fail \in 0 .. 2 :
    Returned("clip_polygon",
             [uvs |-> <<>>, uvs_given |-> FALSE, points |-> SubSeq(<<a, b, c>>, 1, n),
              window |-> <<0, 0, 2, 2>>, fail |-> fail],
             clip_scratch(n, fail))

NextScratch ==
  \/ CallPolygonFilledScratch \/ CallPolygonTexturedScratch \/ CallClipPolygonScratch
  \/ Release

SpecScratch == Init /\ [][NextScratch]_vars

\* the blocks of a list, as a set
Blocks(s) == {s[i] : i \in 1 .. Len(s)}

\* C13: when draw_polygon_filled, draw_polygon_textured or clip_polygon returns
\* or raises, every scratch block the call allocated has been freed exactly once
\* and none remains allocated.
ScratchAllFreed ==
  (/\ op \in {"draw_polygon_filled", "draw_polygon_textured", "clip_polygon"}
   /\ (result.returned \/ result.raised)) =>
    /\ Blocks(result.frees) = Blocks(result.mallocs)
    /\ Len(result.frees) = Cardinality(Blocks(result.frees))

\* C14: if a scratch allocation of draw_polygon_filled or draw_polygon_textured
\* fails, the call returns without raising, without dereferencing the failed
\* allocation, and with the framebuffer unchanged.
AllocationFailureReturns ==
  (op \in {"draw_polygon_filled", "draw_polygon_textured"} /\ result.failed) =>
    /\ result.returned /\ ~result.raised /\ ~result.null_deref
    /\ buffer = before

(***************************************************************************)
(* Transform2D: basis columns x and y and an origin, each a Vector2        *)
(* <<x, y>> of exact rationals                                             *)
(***************************************************************************)
QNeg(a) == <<0 - a[1], a[2]>>

\* Vector2.dot_c
dot_c(a, b) == QAdd(QMul(a[1], b[1]), QMul(a[2], b[2]))

from_basis(x_axis, y_axis, origin) == [x |-> x_axis, y |-> y_axis, origin |-> origin]

basis_xform_c(self, v) ==
  <<QAdd(QMul(self.x[1], v[1]), QMul(self.y[1], v[2])),
    QAdd(QMul(self.x[2], v[1]), QMul(self.y[2], v[2]))>>

xform_c(self, v) ==
  <<QAdd(QAdd(QMul(self.x[1], v[1]), QMul(self.y[1], v[2])), self.origin[1]),
    QAdd(QAdd(QMul(self.x[2], v[1]), QMul(self.y[2], v[2])), self.origin[2])>>

\* v_offset = v - origin; (x . v_offset, y . v_offset)
xform_inv_c(self, v) ==
  <<dot_c(self.x, <<QSub(v[1], self.origin[1]), QSub(v[2], self.origin[2])>>),
    dot_c(self.y, <<QSub(v[1], self.origin[1]), QSub(v[2], self.origin[2])>>)>>

xform(self, v) == xform_c(self, v)

xform_inv(self, v) == xform_inv_c(self, v)

\* mutant: the origin of the product is turned by the basis but not moved
mul_transform_basis_origin(self, t_other) ==
  from_basis(basis_xform_c(self, t_other.x), basis_xform_c(self, t_other.y),
             basis_xform_c(self, t_other.origin))

\* __mul__ with a Transform2D: lines 67-82
mul_transform(self, t_other) ==
  from_basis(<<QAdd(QMul(self.x[1], t_other.x[1]), QMul(self.y[1], t_other.x[2])),
               QAdd(QMul(self.x[2], t_other.x[1]), QMul(self.y[2], t_other.x[2]))>>,
             <<QAdd(QMul(self.x[1], t_other.y[1]), QMul(self.y[1], t_other.y[2])),
               QAdd(QMul(self.x[2], t_other.y[1]), QMul(self.y[2], t_other.y[2]))>>,
             xform_c(self, t_other.origin))

\* __mul__ with a Vector2: lines 84-85
mul_vector(self, other) == xform_c(self, other)

\* mutant: the two products of the determinant are added
determinant_sum(self) == QAdd(QMul(self.x[1], self.y[2]), QMul(self.x[2], self.y[1]))

\* line 143
determinant(self) == QSub(QMul(self.x[1], self.y[2]), QMul(self.x[2], self.y[1]))

\* lines 149-158: inv_x, inv_y and new_origin from idet
inverse_basis(self, idet) ==
  [inv_x |-> <<QMul(self.y[2], idet), QMul(QNeg(self.y[1]), idet)>>,
   inv_y |-> <<QMul(QNeg(self.x[2]), idet), QMul(self.x[1], idet)>>]

inverse_from(self, b) ==
  from_basis(b.inv_x, b.inv_y,
             <<QNeg(QAdd(QMul(b.inv_x[1], self.origin[1]), QMul(b.inv_y[1], self.origin[2]))),
               QNeg(QAdd(QMul(b.inv_x[2], self.origin[1]), QMul(b.inv_y[2], self.origin[2])))>>)

\* raised: ValueError; value: the transforms returned, none when raised
inverse_with(self, det) ==
  IF det = Q(0) THEN [value |-> <<>>, raised |-> TRUE]
  ELSE [value |-> <<inverse_from(self, inverse_basis(self, QDiv(Q(1), det)))>>,
        raised |-> FALSE]

inverse(self) == inverse_with(self, determinant(self))

(***************************************************************************)
(* Transform2D calls                                                       *)
(***************************************************************************)
\* the largest whole basis coefficient
BasisMax == 2

BasisCoords == {Q(n) : n \in (0 - 1) .. BasisMax} \cup {QDiv(Q(1), Q(2))}
BasisVectors == BasisCoords \X BasisCoords
Transforms ==
  {from_basis(x_axis, y_axis, origin) :
     x_axis \in BasisVectors, y_axis \in BasisVectors,
     origin \in {<<Q(0), Q(0)>>, <<Q(1), Q(0 - 2)>>}}

\* a quarter turn about a moved origin, a scaling, a shear and a singular transform
Operands ==
  {from_basis(<<Q(0), Q(1)>>, <<Q(0 - 1), Q(0)>>, <<Q(3), Q(1)>>),
   from_basis(<<Q(2), Q(0)>>, <<Q(0), Q(3)>>, <<Q(0), Q(0)>>),
   from_basis(<<Q(1), Q(0)>>, <<Q(1), Q(1)>>, <<Q(0 - 1), Q(0)>>),
   from_basis(<<Q(1), Q(2)>>, <<Q(2), Q(4)>>, <<Q(0), Q(1)>>)}

Vectors == {<<Q(0), Q(0)>>, <<Q(1), Q(0)>>, <<Q(0), Q(1)>>, <<Q(2), Q(0 - 3)>>}

\* self in the result is the receiver as the call leaves it: inverse assigns no field
CallInverse ==
  op = "init" /\ \E t \in Transforms :
    Returned("inverse", [self |-> t],
             [value |-> inverse(t).value, raised |-> inverse(t).raised, self |-> t])

CallXform ==
  op = "init" /\ \E t \in Transforms, v \in Vectors :
    Returned("xform", [v |-> v, self |-> t], xform(t, v))

CallXformInv ==
  op = "init" /\ \E t \in Transforms, v \in Vectors :
    Returned("xform_inv", [v |-> v, self |-> t], xform_inv(t, v))

CallMulTransform ==
  op = "init" /\ \E a \in Transforms, b \in Operands :
    Returned("mul", [self |-> a, other |-> b],
             [value |-> mul_transform(a, b), self |-> a, other |-> b])

CallMulVector ==
  op = "init" /\ \E a \in Transforms, v \in Vectors :
    Returned("mul", [self |-> a, other |-> v],
             [value |-> mul_vector(a, v), self |-> a, other |-> v])

NextTransform ==
  \/ CallInverse \/ CallXform \/ CallXformInv \/ CallMulTransform \/ CallMulVector
  \/ Release

SpecTransform == Init /\ [][NextTransform]_vars

\* x.x * y.y - x.y * y.x
Det(t) == QSub(QMul(t.x[1], t.y[2]), QMul(t.x[2], t.y[1]))

\* C15: inverse() raises exactly when det = x.x*y.y - x.y*y.x is 0; when it
\* raises, no transform is returned and the receiver is unchanged; when det is
\* not 0 it returns one transform and does not raise.
InverseRaisesIffSingular ==
  op = "inverse" =>
    /\ result.raised <=> Det(args.self) = Q(0)
    /\ Len(result.value) = IF Det(args.self) = Q(0) THEN 0 ELSE 1
    /\ result.self = args.self

\* a singular basis without a zero coefficient: det = 1 * 1 - 2 * 1/2
InverseRaisesWitness ==
  /\ op = "inverse" /\ args.self.x = <<Q(1), Q(2)>>
  /\ args.self.y = <<QDiv(Q(1), Q(2)), Q(1)>>
  /\ result.raised /\ result.value = <<>>

\* C16: for every Transform2D T with non-zero determinant and every vector v,
\* T.inverse().xform(T.xform(v)) = v and T.xform(T.inverse().xform(v)) = v.
InverseRoundTrip ==
  (op = "inverse" /\ Det(args.self) # Q(0)) =>
    /\ ~result.raised
    /\ \A v \in Vectors :
         /\ xform(result.value[1], xform(args.self, v)) = v
         /\ xform(args.self, xform(result.value[1], v)) = v

\* C17: for every Transform2D M with non-zero determinant and every vector v,
\* M.xform_inv(v) is inv(M) * v, the one vector that M.xform takes to v.
XformInvInverts ==
  (op = "xform_inv" /\ Det(args.self) # Q(0)) => xform(args.self, result) = args.v

IsTransform(t) == DOMAIN t = {"x", "y", "origin"}

\* C18: (A * B).xform(v) = A.xform(B.xform(v)) for every vector v (the images of
\* (0,0), (1,0) and (0,1) fix the product of the augmented matrices), A * v is
\* A.xform(v), and neither operand is changed by the multiplication.
ProductComposes ==
  op = "mul" =>
    /\ result.self = args.self /\ result.other = args.other
    /\ IF IsTransform(args.other)
       THEN \A v \in Vectors :
              xform(result.value, v) = xform(args.self, xform(args.other, v))
       ELSE result.value = xform(args.self, args.other)

\* a shear times a quarter turn about (3, 1): the two do not commute
ProductWitness ==
  /\ op = "mul"
  /\ args.self = from_basis(<<Q(1), Q(0)>>, <<Q(1), Q(1)>>, <<Q(1), Q(0 - 2)>>)
  /\ args.other = from_basis(<<Q(0), Q(1)>>, <<Q(0 - 1), Q(0)>>, <<Q(3), Q(1)>>)
  /\ result.value = from_basis(<<Q(1), Q(1)>>, <<Q(0 - 1), Q(0)>>, <<Q(5), Q(0 - 1)>>)
  /\ result.value # mul_transform(args.other, args.self)

(***************************************************************************)
(* Sampler calls                                                           *)
(***************************************************************************)
\* the largest texture extent
TexMax == 3

Textures == {PatternFb(w, h) : w \in 1 .. TexMax, h \in 1 .. TexMax}

\* quarters and thirds from below -2 to above 2
TexCoords == {QDiv(Q(n), Q(4)) : n \in (0 - 9) .. 9} \cup {QDiv(Q(n), Q(3)) : n \in (0 - 7) .. 7}

CallSampleNearest ==
  op = "init" /\ \E tex \in Textures, u \in TexCoords, v \in TexCoords :
    Returned("sample_nearest", [u |-> u, v |-> v, texture |-> tex],
             [value |-> sample_nearest(tex, tex.w, tex.h, u, v),
              texel |-> nearest_texel(tex.w, tex.h, u, v)])

NextSampler == CallSampleNearest \/ Release

SpecSampler == Init /\ [][NextSampler]_vars

\* C19: for extents w, h >= 1 and every (u, v), sample_nearest returns
\* tex[floor(u*w) mod w, floor(v*h) mod h] with the non-negative modulo, and the
\* index of the texel it reads satisfies 0 <= x < w and 0 <= y < h.
NearestIsFloorMod ==
  op = "sample_nearest" =>
    /\ result.texel = <<QFloor(QMul(args.u, Q(args.texture.w))) % args.texture.w,
                        QFloor(QMul(args.v, Q(args.texture.h))) % args.texture.h>>
    /\ result.texel \in DOMAIN args.texture.px
    /\ result.value = args.texture.px[result.texel]

\* u = -5/4 on 3 texels reads x = 2, v = 7/3 on 2 texels reads y = 0
NearestWitness ==
  /\ op = "sample_nearest" /\ args.texture.w = 3 /\ args.texture.h = 2
  /\ args.u = QDiv(Q(0 - 5), Q(4)) /\ args.v = QDiv(Q(7), Q(3))
  /\ result.texel = <<2, 0>> /\ result.value = args.texture.px[<<2, 0>>]

(***************************************************************************)
(* Geometry2D.is_point_in_polygon (unnamed/part_008): ray casting along +x *)
(***************************************************************************)
\* mutant: the end pj counts as above the ray when it lies exactly on its row
edge_crossing_mixed(pi, pj, px, py) ==
  IF QGt(pi[2], py) # QGe(pj[2], py)
  THEN [value |-> QLt(px, QAdd(QDiv(QMul(QSub(pj[1], pi[1]), QSub(py, pi[2])),
                                    QSub(pj[2], pi[2])), pi[1])),
        div0 |-> QSub(pj[2], pi[2]) = Q(0)]
  ELSE [value |-> FALSE, div0 |-> FALSE]

\* lines 34-35: value says the edge from pj to pi flips c; the quotient is only
\* evaluated when the first test holds, and div0 says its divisor was zero
edge_crossing(pi, pj, px, py) ==
  IF QGt(pi[2], py) # QGt(pj[2], py)
  THEN [value |-> QLt(px, QAdd(QDiv(QMul(QSub(pj[1], pi[1]), QSub(py, pi[2])),
                                    QSub(pj[2], pi[2])), pi[1])),
        div0 |-> QSub(pj[2], pi[2]) = Q(0)]
  ELSE [value |-> FALSE, div0 |-> FALSE]

\* lines 28-36 from the i-th vertex on (i counted from 1); a zero divisor raises
\* ZeroDivisionError and ends the call
RECURSIVE point_in_polygon_loop(_, _, _, _, _)
point_in_polygon_edge(polygon, i, px, py, c, e) ==
  IF e.div0 THEN [value |-> c, div0 |-> TRUE]
  ELSE point_in_polygon_loop(polygon, i + 1, px, py, IF e.value THEN ~c ELSE c)

point_in_polygon_loop(polygon, i, px, py, c) ==
  IF i > Len(polygon) THEN [value |-> c, div0 |-> FALSE]
  ELSE point_in_polygon_edge(polygon, i, px, py, c,
                             edge_crossing(polygon[i],
                                           polygon[IF i = 1 THEN Len(polygon) ELSE i - 1],
                                           px, py))

is_point_in_polygon(point, polygon) ==
  point_in_polygon_loop(polygon, 1, point[1], point[2], FALSE)

(***************************************************************************)
(* Point-in-polygon calls                                                  *)
(***************************************************************************)
\* the largest vertex coordinate of a triangle
GeoMax == 3

TrianglePoints == (0 .. GeoMax) \X (0 .. GeoMax)
QuadGrid == (0 .. 2) \X (0 .. 2)

RECURSIVE SumOf(_, _, _)
SumOf(pts, axis, i) == IF i > Len(pts) THEN 0 ELSE pts[i][axis] + SumOf(pts, axis, i + 1)

\* the vertex average
Centroid(pts) == <<QDiv(Q(SumOf(pts, 1, 1)), Q(Len(pts))), QDiv(Q(SumOf(pts, 2, 1)), Q(Len(pts)))>>

\* every corner turns the same way
IsConvex(pts) ==
  \E s \in {0 - 1, 1} :
    \A i \in 1 .. Len(pts) :
      Orient(pts[i], pts[(i % Len(pts)) + 1], pts[((i + 1) % Len(pts)) + 1]) = s

PointInPolygonCall(point, pts) ==
  Returned("is_point_in_polygon", [polygon |-> pts, point |-> point],
           is_point_in_polygon(point, QPoints(pts)))

CallIsPointInPolygon ==
  op = "init" /\
    \/ \E a \in TrianglePoints, b \in TrianglePoints, c \in TrianglePoints :
         /\ IsConvex(<<a, b, c>>)
         /\ PointInPolygonCall(Centroid(<<a, b, c>>), <<a, b, c>>)
    \/ \E a \in QuadGrid, b \in QuadGrid, c \in QuadGrid, d \in QuadGrid :
         /\ IsConvex(<<a, b, c, d>>)
         /\ PointInPolygonCall(Centroid(<<a, b, c, d>>), <<a, b, c, d>>)
    \/ \E lo \in 0 .. 1, hi \in 2 .. GeoMax, k \in 0 .. 3, p \in TrianglePoints :
         PointInPolygonCall(<<Q(p[1]), Q(p[2])>>, Rotated(Square(lo, hi), k))

NextGeometry == CallIsPointInPolygon \/ Release

SpecGeometry == Init /\ [][NextGeometry]_vars

\* C20: for every convex polygon with at least 3 vertices not on one line,
\* is_point_in_polygon returns true for the vertex average, whichever way the
\* polygon winds and whichever vertex is listed first, and divides by zero nowhere.
CentroidInside ==
  (/\ op = "is_point_in_polygon" /\ IsConvex(args.polygon)
   /\ args.point = Centroid(args.polygon)) =>
    result.value /\ ~result.div0

\* a diamond listed clockwise from its left corner: the ray from the centre
\* (1, 1) runs through the corner (2, 1)
CentroidWitness ==
  /\ op = "is_point_in_polygon"
  /\ args.polygon = <<(<<0, 1>>), (<<1, 0>>), (<<2, 1>>), (<<1, 2>>)>>
  /\ args.point = <<Q(1), Q(1)>> /\ result.value /\ ~result.div0

(***************************************************************************)
(* The ring of draw_rect_outline                                           *)
(***************************************************************************)
\* the number of pixels between c and the nearest side of [x, x+w) x [y, y+h),
\* for a pixel c of the rectangle
BorderDistance(c, x, y, w, h) ==
  Least({c[1] - x, x + w - 1 - c[1], c[2] - y, y + h - 1 - c[2]})

InRect(c, x, y, w, h) == x <= c[1] /\ c[1] < x + w /\ y <= c[2] /\ c[2] < y + h

\* C21: for thickness t >= 1 with 2*t <= min(w, h), draw_rect_outline stores
\* exactly once to each in-bounds pixel of [x, x+w) x [y, y+h) whose distance to
\* the border is less than t, leaving it at blend_colors(color, old pixel), and
\* leaves the inner rectangle and every pixel outside the rectangle unchanged
\* and unwritten.
RectOutlineRing ==
  (/\ op = "draw_rect_outline" /\ args.thickness >= 1
   /\ 2 * args.thickness <= args.w /\ 2 * args.thickness <= args.h) =>
    /\ \A i \in 1 .. Len(writes) : writes[i] \in DOMAIN before.px
    /\ \A c \in DOMAIN before.px :
         IF /\ InRect(c, args.x, args.y, args.w, args.h)
            /\ BorderDistance(c, args.x, args.y, args.w, args.h) < args.thickness
         THEN buffer.px[c] = blend_colors(args.color, before.px[c]) /\ StoresTo(c) = 1
         ELSE buffer.px[c] = before.px[c] /\ StoresTo(c) = 0

\* a translucent 4x4 ring of thickness 1 hanging over the left and the bottom
\* edge of a 3x3 framebuffer: five ring pixels are inside, the inner ones untouched
RectOutlineWitness ==
  /\ op = "draw_rect_outline" /\ args.color = HalfRed /\ before.w = 3 /\ before.h = 3
  /\ args.x = 0 - 1 /\ args.y = 0 /\ args.w = 4 /\ args.h = 4 /\ args.thickness = 1
  /\ Written = {<<0, 0>>, <<1, 0>>, <<2, 0>>, <<2, 1>>, <<2, 2>>} /\ Len(writes) = 5
  /\ buffer.px[<<1, 1>>] = before.px[<<1, 1>>]

(***************************************************************************)
(* compute_homography (math/algorithms/homography.pyx): Gauss-Jordan with  *)
(* partial pivoting on the 8 equations; a row holds its 8 coefficients and *)
(* its right-hand side as the 9th entry                                    *)
(***************************************************************************)
Row9(F(_)) == <<F(1), F(2), F(3), F(4), F(5), F(6), F(7), F(8), F(9)>>
Rows8(F(_)) == <<F(1), F(2), F(3), F(4), F(5), F(6), F(7), F(8)>>

QAbs(a) == <<Abs(a[1]), a[2]>>

\* mutant: the pivot is not tested
near_zero_untested(a) == FALSE

\* abs(pivot) < 1e-9, for a quotient n / d of machine integers: |n| * 10^9 < d
near_zero(a) == Abs(a[1]) <= (a[2] - 1) \div 1000000000

\* lines 48-51: the two equations of the point pair s -> d
equation_u(s, d) ==
  <<s[1], s[2], Q(1), Q(0), Q(0), Q(0), QNeg(QMul(s[1], d[1])), QNeg(QMul(s[2], d[1])), d[1]>>

equation_v(s, d) ==
  <<Q(0), Q(0), Q(0), s[1], s[2], Q(1), QNeg(QMul(s[1], d[2])), QNeg(QMul(s[2], d[2])), d[2]>>

equations(src, dst) ==
  Rows8(LAMBDA r : IF r % 2 = 1 THEN equation_u(src[(r + 1) \div 2], dst[(r + 1) \div 2])
                   ELSE equation_v(src[r \div 2], dst[r \div 2]))

\* lines 54-60: the first row from col on with the largest |matrix[row][col]|
RECURSIVE pivot_row(_, _, _, _)
pivot_row(matrix, col, row, max_row) ==
  IF row > 8 THEN max_row
  ELSE pivot_row(matrix, col, row + 1,
                 IF QGt(QAbs(matrix[row][col]), QAbs(matrix[max_row][col])) THEN row
                 ELSE max_row)

\* lines 62-64
swap_rows(matrix, col, max_row) ==
  Rows8(LAMBDA r : IF r = col THEN matrix[max_row] ELSE IF r = max_row THEN matrix[col]
                   ELSE matrix[r])

\* lines 71-74: the pivot row from column col on, and its right-hand side
scale_row(row, col, inv_pivot) ==
  Row9(LAMBDA j : IF j >= col THEN QMul(row[j], inv_pivot) ELSE row[j])

\* lines 78-81
reduce_row(row, pivot_row_, col) ==
  Row9(LAMBDA j : IF j >= col THEN QSub(row[j], QMul(row[col], pivot_row_[j])) ELSE row[j])

\* lines 76-81
eliminate(matrix, scaled, col) ==
  Rows8(LAMBDA r : IF r = col THEN scaled ELSE reduce_row(matrix[r], scaled, col))

IdentityMatrix ==
  <<(<<Q(1), Q(0), Q(0)>>), (<<Q(0), Q(1), Q(0)>>), (<<Q(0), Q(0), Q(1)>>)>>

\* lines 83-84
homography_of(matrix) ==
  <<(<<matrix[1][9], matrix[2][9], matrix[3][9]>>),
    (<<matrix[4][9], matrix[5][9], matrix[6][9]>>),
    (<<matrix[7][9], matrix[8][9], Q(1)>>)>>

\* lines 53-81 from column col on (counted from 1); logged: Logger.error was called;
\* 1.0 / pivot raises ZeroDivisionError on a zero pivot (cdivision is off in this file)
RECURSIVE gauss_jordan(_, _)
gauss_pivot(matrix, col) ==
  IF near_zero(matrix[col][col])
  THEN [value |-> IdentityMatrix, raised |-> FALSE, logged |-> TRUE]
  ELSE IF matrix[col][col] = Q(0)
  THEN [value |-> <<>>, raised |-> TRUE, logged |-> FALSE]
  ELSE gauss_jordan(eliminate(matrix,
                              scale_row(matrix[col], col, QDiv(Q(1), matrix[col][col])),
                              col),
                    col + 1)

gauss_jordan(matrix, col) ==
  IF col > 8 THEN [value |-> homography_of(matrix), raised |-> FALSE, logged |-> FALSE]
  ELSE gauss_pivot(swap_rows(matrix, col, pivot_row(matrix, col, col + 1, col)), col)

\* raised: ValueError
compute_homography(src, dst) ==
  IF Len(src) # 4 \/ Len(dst) # 4
  THEN [value |-> <<>>, raised |-> TRUE, logged |-> FALSE]
  ELSE gauss_jordan(equations(src, dst), 1)

(***************************************************************************)
(* Homography calls                                                        *)
(***************************************************************************)
\* the largest coordinate of the two free source points
HomMax == 2

HomPoints == {<<Q(x), Q(y)>> : x \in 0 .. HomMax, y \in 0 .. HomMax}
HomCorners == {<<Q(0), Q(0)>>, <<Q(2), Q(0)>>, <<Q(1), Q(2)>>}

\* a unit square moved and stretched, and a quadrilateral that is no parallelogram
Destinations ==
  {<<(<<Q(1), Q(1)>>), (<<Q(3), Q(1)>>), (<<Q(3), Q(2)>>), (<<Q(1), Q(2)>>)>>,
   <<(<<Q(0), Q(0)>>), (<<Q(2), Q(0)>>), (<<Q(3), Q(2)>>), (<<Q(0), Q(1)>>)>>}

CallComputeHomography ==
  op = "init" /\
    \/ \E a \in HomPoints, b \in HomPoints, c \in HomCorners, d \in HomCorners,
          dst \in Destinations :
         Returned("compute_homography", [src |-> <<a, b, c, d>>, dst |-> dst],
                  compute_homography(<<a, b, c, d>>, dst))
    \/ \E a \in HomCorners, n \in 0 .. 3, m \in 3 .. 4, dst \in Destinations :
         Returned("compute_homography",
                  [src |-> SubSeq(<<a, a, a, a>>, 1, n), dst |-> SubSeq(dst, 1, m)],
                  compute_homography(SubSeq(<<a, a, a, a>>, 1, n), SubSeq(dst, 1, m)))

NextHomography == CallComputeHomography \/ Release

SpecHomography == Init /\ [][NextHomography]_vars

\* the points a, b, c lie on one line (two equal points included)
Collinear(a, b, c) ==
  QMul(QSub(b[1], a[1]), QSub(c[2], a[2])) = QMul(QSub(b[2], a[2]), QSub(c[1], a[1]))

\* the four points lie on one line
AllCollinear(pts) ==
  \A i \in 1 .. 4, j \in 1 .. 4, k \in 1 .. 4 : Collinear(pts[i], pts[j], pts[k])

\* h takes s to d: (h0 . s, h1 . s) = d * (h2 . s), s extended by 1
MapsTo(h, s, d) ==
  /\ QAdd(QAdd(QMul(h[1][1], s[1]), QMul(h[1][2], s[2])), h[1][3])
       = QMul(d[1], QAdd(QAdd(QMul(h[3][1], s[1]), QMul(h[3][2], s[2])), h[3][3]))
  /\ QAdd(QAdd(QMul(h[2][1], s[1]), QMul(h[2][2], s[2])), h[2][3])
       = QMul(d[2], QAdd(QAdd(QMul(h[3][1], s[1]), QMul(h[3][2], s[2])), h[3][3]))

\* C22: compute_homography raises exactly when a point list does not hold 4
\* points; with 4 and 4 points, whenever a selected pivot is below 1e-9 in
\* absolute value, as it is when the four source points lie on one line or
\* coincide, it logs an error and returns the identity matrix; when no pivot is,
\* the matrix returned takes each source point to its destination point.
HomographyNeverRaises ==
  op = "compute_homography" =>
    /\ result.raised <=> (Len(args.src) # 4 \/ Len(args.dst) # 4)
    /\ result.logged => result.value = IdentityMatrix
    /\ (Len(args.src) = 4 /\ Len(args.dst) = 4 /\ AllCollinear(args.src))
         => result.logged
    /\ (~result.raised /\ ~result.logged) =>
         \A i \in 1 .. 4 : MapsTo(result.value, args.src[i], args.dst[i])

\* four source points on the line y = 0
HomographyWitness ==
  /\ op = "compute_homography" /\ Len(args.dst) = 4
  /\ args.src = <<(<<Q(1), Q(0)>>), (<<Q(2), Q(0)>>), (<<Q(0), Q(0)>>), (<<Q(2), Q(0)>>)>>
  /\ result.logged /\ ~result.raised /\ result.value = IdentityMatrix

(***************************************************************************)
(* The edge table and the active edges of the polygon fillers              *)
(***************************************************************************)
PolygonFillOps == {"draw_polygon_filled", "draw_polygon_textured"}

\* the call got past the early returns of lines 135-145 and built its edge table
EdgesBuilt ==
  /\ op \in PolygonFillOps /\ Len(args.vertices) >= 3
  /\ poly_rows(args.vertices, before.h)[1] <= poly_rows(args.vertices, before.h)[2]

\* the edge nodes of the call in the state, in the order of their insertion
EdgesOfCall == poly_edges(Untextured(args.vertices), 1, before.h)

\* the rows y_start .. y_max - 1 of an edge miss every row of the framebuffer
EdgeOutside(p1, p2, h) ==
  \/ QTrunc(p1[2]) >= h /\ QTrunc(p2[2]) >= h
  \/ QTrunc(p1[2]) < 0 /\ QTrunc(p2[2]) < 0

\* C23: every edge inserted into the edge table of draw_polygon_filled and
\* draw_polygon_textured is inserted at a row y_start with 0 <= y_start < H and
\* has y_start < y_max; an edge whose ends truncate to one row, and an edge
\* wholly outside the rows 0 .. H - 1, is not inserted.
EdgeTableIndexInRange ==
  EdgesBuilt =>
    /\ \A i \in 1 .. Len(EdgesOfCall) :
         /\ 0 <= EdgesOfCall[i].y_start /\ EdgesOfCall[i].y_start < before.h
         /\ EdgesOfCall[i].y_start < EdgesOfCall[i].y_max
    /\ \A i \in 1 .. Len(args.vertices) :
         LET p1 == args.vertices[i]
             p2 == args.vertices[(i % Len(args.vertices)) + 1]
         IN  (QTrunc(p1[2]) = QTrunc(p2[2]) \/ EdgeOutside(p1, p2, before.h))
               => poly_edge(Untextured(<<p1, p2>>)[1], Untextured(<<p1, p2>>)[2], before.h) = <<>>

\* lines 183-219 without the spans: the active edges of each row from y on, as they
\* stand when the spans of the row are emitted
RECURSIVE aet_rows(_, _, _, _)
aet_rows_from(edges, AET, y, y_max_global) ==
  <<AET>> \o aet_rows(edges, aet_step(AET), y + 1, y_max_global)

aet_rows(edges, AET, y, y_max_global) ==
  IF y > y_max_global THEN <<>>
  ELSE aet_rows_from(edges, aet_at_row(AET, edges, y, Len(edges)), y, y_max_global)

\* the edge e as it crosses row y: x moved on by dx once per row below y_start
EdgeAtRow(e, y) == [e EXCEPT !.x = QAdd(@, QMul(Q(y - e.y_start), e.dx))]

\* the edges of the polygon that cross row y
CrossingEdges(edges, y) ==
  LET crossing == SelectSeq(edges, LAMBDA e : e.y_start <= y /\ y < e.y_max)
  IN  [i \in 1 .. Len(crossing) |-> EdgeAtRow(crossing[i], y)]

Occurrences(s, e) == Cardinality({i \in 1 .. Len(s) : s[i] = e})

SameEdges(s, t) ==
  /\ Len(s) = Len(t)
  /\ \A i \in 1 .. Len(s) : Occurrences(s, s[i]) = Occurrences(t, s[i])

SortedByX(AET) == \A j \in 1 .. Len(AET) - 1 : ~QGt(AET[j].x, AET[j + 1].x)

\* the active edge lists of the rows y_min_global .. y_max_global of the call
ActiveRows ==
  aet_rows(EdgesOfCall, <<>>, poly_rows(args.vertices, before.h)[1],
           poly_rows(args.vertices, before.h)[2])

\* C24: at every row y the polygon fillers visit, when the spans are emitted the
\* active edge list holds exactly the edges of the polygon with
\* y_start <= y < y_max, each once, in non-decreasing order of their current x.
ActiveEdgesExact ==
  (EdgesBuilt /\ ~result.aborted) =>
    \A k \in 1 .. Len(ActiveRows) :
      /\ SameEdges(ActiveRows[k],
                   CrossingEdges(EdgesOfCall, poly_rows(args.vertices, before.h)[1] + k - 1))
      /\ SortedByX(ActiveRows[k])

(***************************************************************************)
(* The two scratch buffers of clip_polygon                                 *)
(***************************************************************************)
\* C25: for every input polygon of n >= 1 vertices and every window, each of the
\* four passes of clip_polygon writes at most twice as many vertices as it reads,
\* and no pass writes a vertex at an index >= n * 2 + 16, the capacity of the two
\* buffers.
ClipPassesWithinCapacity ==
  (op = "clip_polygon" /\ Len(args.points) >= 1) =>
    /\ result.capacity = Len(args.points) * 2 + 16
    /\ \A k \in 1 .. Len(result.lens) - 1 :
         /\ result.lens[k + 1] <= 2 * result.lens[k]
         /\ result.lens[k + 1] <= result.capacity

\* C26: for every input polygon and every window with min_x <= max_x and
\* min_y <= max_y, every vertex clip_polygon returns lies inside the closed
\* window, the result has 0 or at least 3 vertices, and the vertex and UV arrays
\* returned have the same length.
ClipPolygonResultInside ==
  (op = "clip_polygon" /\ Len(result.lens) = 5) =>
    /\ \A i \in 1 .. Len(result.verts) :
         /\ QGe(result.verts[i][1], Q(args.window[1])) /\ QGe(Q(args.window[3]), result.verts[i][1])
         /\ QGe(result.verts[i][2], Q(args.window[2])) /\ QGe(Q(args.window[4]), result.verts[i][2])
    /\ Len(result.verts) = 0 \/ Len(result.verts) >= 3
    /\ Len(result.uvs) = Len(result.verts)
    /\ Len(result.verts) = (IF result.lens[5] < 3 THEN 0 ELSE result.lens[5])

\* a triangle cut by three sides of the window that comes back with six vertices
ClipPolygonResultWitness ==
  /\ op = "clip_polygon" /\ args.window = <<0, 0, 2, 2>>
  /\ args.points = <<(<<1, 0 - 1>>), (<<3, 1>>), (<<0 - 1, 2>>)>>
  /\ Len(result.lens) = 5 /\ Len(result.verts) = 6 /\ Len(result.uvs) = 6

(***************************************************************************)
(* The positions rasterize_line_c visits                                   *)
(***************************************************************************)
\* lines 21-33 without the blend: the positions <<x0, y0>> the loop visits in order
RECURSIVE line_positions(_, _, _, _, _, _, _, _, _, _)
line_positions(x0, y0, x1, y1, err, dx, dy, sx, sy, fuel) ==
  IF (x0 = x1 /\ y0 = y1) \/ fuel = 0 THEN <<(<<x0, y0>>)>>
  ELSE <<(<<x0, y0>>)>> \o
       line_positions(line_step(x0, y0, err, dx, dy, sx, sy)[1],
                      line_step(x0, y0, err, dx, dy, sx, sy)[2], x1, y1,
                      line_step(x0, y0, err, dx, dy, sx, sy)[3], dx, dy, sx, sy, fuel - 1)

\* the positions visited by the draw_line call of the state
LinePositions ==
  line_positions(args.x0, args.y0, args.x1, args.y1,
                 Abs(args.x1 - args.x0) - Abs(args.y1 - args.y0),
                 Abs(args.x1 - args.x0), Abs(args.y1 - args.y0),
                 IF args.x0 < args.x1 THEN 1 ELSE 0 - 1,
                 IF args.y0 < args.y1 THEN 1 ELSE 0 - 1,
                 2 * (Abs(args.x1 - args.x0) + Abs(args.y1 - args.y0)) + 2)

\* q follows p by one step along the major axis and at most one along the minor axis
LineStepOk(p, q, dx, dy) ==
  IF dx >= dy THEN Abs(q[1] - p[1]) = 1 /\ Abs(q[2] - p[2]) <= 1
  ELSE Abs(q[2] - p[2]) = 1 /\ Abs(q[1] - p[1]) <= 1

\* C27: for integer endpoints rasterize_line_c ends after visiting exactly
\* max(|x1-x0|, |y1-y0|) + 1 positions, the first (x0, y0) and the last (x1, y1);
\* consecutive positions advance by one along the major axis and by at most one
\* along the minor axis, and each in-bounds position is blended exactly once.
LineVisitsMajorAxis ==
  op = "draw_line" =>
    LET dx == Abs(args.x1 - args.x0)
        dy == Abs(args.y1 - args.y0)
    IN /\ Len(LinePositions) = (IF dx >= dy THEN dx ELSE dy) + 1
       /\ LinePositions[1] = <<args.x0, args.y0>>
       /\ LinePositions[Len(LinePositions)] = <<args.x1, args.y1>>
       /\ \A i \in 1 .. Len(LinePositions) - 1 :
            LineStepOk(LinePositions[i], LinePositions[i + 1], dx, dy)
       /\ writes = SelectSeq(LinePositions, LAMBDA p : p \in DOMAIN before.px)
       /\ \A c \in DOMAIN before.px : StoresTo(c) <= 1
       /\ \A c \in DOMAIN before.px :
            buffer.px[c] = IF StoresTo(c) = 1 THEN blend_colors(args.color, before.px[c])
                           ELSE before.px[c]

\* a steep line that enters the framebuffer from outside, in a translucent colour
LineVisitsWitness ==
  /\ op = "draw_line" /\ args.color = HalfRed /\ before = PatternFb(FbMax, FbMax)
  /\ args.x0 = 0 - 1 /\ args.y0 = 0 - 1 /\ args.x1 = 1 /\ args.y1 = 4
  /\ Len(LinePositions) = 6 /\ Len(writes) >= 2 /\ Len(writes) < 6

(***************************************************************************)
(* The loop of clip_line                                                   *)
(***************************************************************************)
\* C28: for every segment and every window with min_x <= max_x and
\* min_y <= max_y, the loop of clip_line ends after clipping endpoints at most
\* four times, every division it makes has a non-zero divisor, and when it
\* accepts, both returned endpoints lie inside the closed window.
ClipLineTerminates ==
  op = "clip_line" =>
    /\ result.stopped /\ result.clips <= 4 /\ ~result.div0
    /\ result.accepted =>
         /\ QGe(result.line[1], Q(args.min_x)) /\ QGe(Q(args.max_x), result.line[1])
         /\ QGe(result.line[2], Q(args.min_y)) /\ QGe(Q(args.max_y), result.line[2])
         /\ QGe(result.line[3], Q(args.min_x)) /\ QGe(Q(args.max_x), result.line[3])
         /\ QGe(result.line[4], Q(args.min_y)) /\ QGe(Q(args.max_y), result.line[4])

\* a segment that runs through the window from above right to below left, each end
\* clipped twice
ClipLineTerminatesWitness ==
  /\ op = "clip_line" /\ result.accepted /\ result.clips = 4
  /\ args.x1 = 4 /\ args.y1 = 3 /\ args.x2 = 0 - 1 /\ args.y2 = 0
  /\ args.min_x = 1 /\ args.max_x = 2 /\ args.min_y = 1 /\ args.max_y = 2

(***************************************************************************)
(* Translucent circles                                                     *)
(***************************************************************************)
CircleOps == {"draw_circle_filled", "draw_circle_outline"}

\* C29: for a colour of alpha 1 .. 254 and every centre and radius r >= 0,
\* draw_circle_filled and draw_circle_outline blend each covered in-bounds pixel
\* exactly once, so that it ends as blend_colors(color, original pixel), and leave
\* every other pixel unchanged.
CircleBlendsOnce ==
  (/\ op \in CircleOps /\ args.r >= 0
   /\ AlphaOf(args.color) >= 1 /\ AlphaOf(args.color) <= 254) =>
    \A c \in DOMAIN before.px :
      /\ StoresTo(c) <= 1
      /\ buffer.px[c] = IF StoresTo(c) = 1 THEN blend_colors(args.color, before.px[c])
                        ELSE before.px[c]

(***************************************************************************)
(* The sorted corners of draw_triangle_textured                            *)
(***************************************************************************)
\* the corners <<x, y, u, v>> the call of the state was given, and after the three steps
GivenCorners == Textured(args.vertices, args.uvs)
SortedCorners == tri_sort(GivenCorners)

Permutations3 == {p \in [1 .. 3 -> 1 .. 3] : \A i \in 1 .. 3 : \E j \in 1 .. 3 : p[j] = i}

\* C30: for every order of the three vertices given to draw_triangle_textured, the
\* records (x, y, u, v) after the three compare-and-swap steps are a permutation
\* of the records given, with y0 <= y1 <= y2 and each UV on its own vertex; and
\* when int(y2 - y0) is 0 the call leaves the framebuffer unchanged.
TriangleSortPermutes ==
  op = "draw_triangle_textured" =>
    /\ \E p \in Permutations3 : \A i \in 1 .. 3 : SortedCorners[i] = GivenCorners[p[i]]
    /\ ~QGt(SortedCorners[1][2], SortedCorners[2][2])
    /\ ~QGt(SortedCorners[2][2], SortedCorners[3][2])
    /\ QTrunc(QSub(SortedCorners[3][2], SortedCorners[1][2])) = 0
         => (buffer = before /\ writes = <<>>)

\* the corners given from the lowest row up: all three steps swap
TriangleSortWitness ==
  /\ op = "draw_triangle_textured"
  /\ args.vertices = <<(<<Q(FbMax), Q(FbMax)>>), (<<Q(0 - Reach), Q(1)>>), (<<(<<1, 2>>), (<<0 - 1, 2>>)>>)>>
  /\ SortedCorners[1] = GivenCorners[3] /\ SortedCorners[3] = GivenCorners[1]
  /\ writes # <<>>

====
